---- MODULE Spec2Model ----
(***************************************************************************)
(* A model of xxzip: the archive writer (compress), the archive reader     *)
(* (extract) and the listing query, in their duplicated implementations    *)
(* (compress.rs / extract.rs / list.rs, core.rs, main.rs).                  *)
(*                                                                         *)
(* Strings are sequences of one-character strings, so that the path        *)
(* conversions (components, join, strip_prefix, mangled_name,              *)
(* enclosed_name) are computed as the code and its libraries compute them. *)
(* File contents are sequences of chunks <<id, lo, hi>>: the bytes lo..hi-1 *)
(* of the original byte string id; adjacent chunks merge, so two contents  *)
(* are equal exactly when they are the same bytes of the same originals.   *)
(***************************************************************************)
EXTENDS Integers, Sequences, FiniteSets, TLC

VARIABLES
    \* ---- the archive reader (extract) ----
    archive,      \* the container: a sequence of entries
    overwrite,    \* the overwrite flag of the job
    eimpl,        \* which extract runs: "extract" (extract.rs), "core", "main"
    epc,          \* position of the reader: "init", "loop", "copy", "done"
    eidx,         \* index of the entry being processed (1-based)
    eres,         \* terminal result: "none", "ok", "err"
    disk,        \* the filesystem as seen from the working directory
    prefs,        \* the filesystem before the job started
    position,     \* the progress bar's position
    etotal,       \* the progress bar's length
    touched,      \* every location the job created or wrote
    ecur,         \* the file copy in progress: [loc, off, buf, short]
    output_dir,   \* the designated output directory (a path string)
    \* ---- the archive writer (compress) ----
    cimpl,        \* which compress runs: "compress" (compress.rs), "core", "main"
    source_path,  \* the file or directory to compress (a path string)
    output_path,  \* where the container is written (a path string)
    level,        \* the compression level asked for (a u32)
    cpc,          \* position of the writer
    cres,         \* terminal result: "none", "ok", "panic" or one of Errors
    zip,          \* the entries written to the container so far
    finished,     \* whether zip.finish() has written the central directory
    walk,         \* what is left of the directory walk of the writing pass
    total_size,   \* the total computed by the sizing pass
    chan,         \* the deltas in the channel, not yet received
    tx_alive,     \* the worker still holds the sender
    relay,        \* the relay thread: [pc, processed_size, faulty]
    cposition,    \* the position of the writer's progress bar
    sent,         \* the sum of the deltas the worker handed to tx.send
    ccur,         \* the file being copied: [loc, size, off, buf, short, mapfail]
    \* ---- the listing query ----
    limpl,        \* which listing runs: "list" (list.rs), "core", "main"
    larchive,     \* the entries listed: [name, size, compressed_size]
    lpc,          \* position of the listing: "totals", "rows", "done"
    lidx,         \* index of the entry whose row comes next (1-based)
    ltotals,      \* list.rs: [total_size, total_compressed_size, overall_ratio]
    lrows,        \* the ratio reported in each row so far
    \* ---- the window (ZipToolApp) and its worker threads ----
    gimpl,            \* which window runs: "gui" (gui.rs), "main" (main.rs)
    operation,        \* "Compress", "Extract" or "List"
    gui_source,       \* self.source_path.is_some()
    gui_output,       \* self.output_path.is_some()
    operation_state,  \* "Idle", "InProgress", "Done" or "Error"
    result_receiver,  \* 0 for None, else the job whose receiver is held
    jobs,             \* the workers spawned: [op, state, chan, rx, got]
    \* ---- the helpers (utils.rs) ----
    fsize,            \* format_size: the size, in digits of base 1024, low first
    fout,             \* format_size: what is printed, [unit, hundredths]
    \* ---- the command line (cli.rs) ----
    cli_output,       \* the --output argument: [some, path]
    \* ---- the archive file (extract) ----
    zipfile,          \* what File::open and ZipArchive::new find: "archive",
                      \* "missing" or "garbage"
    \* ---- the name column of the listing (list.rs) ----
    dname,            \* the entry name: the byte length of each character
    dout              \* the displayed name: [done, panic, dots, shown]

evars == << archive, overwrite, eimpl, epc, eidx, eres, disk, prefs,
            position, etotal, touched, ecur, output_dir >>

cvars == << cimpl, source_path, output_path, level, cpc, cres, zip, finished, walk,
            total_size, chan, tx_alive, relay, cposition, sent, ccur >>

lvars == << limpl, larchive, lpc, lidx, ltotals, lrows >>
gvars == << gimpl, operation, gui_source, gui_output, operation_state,
            result_receiver, jobs >>
xvars == << fsize, fout, cli_output, zipfile, dname, dout >>
vars == << evars, cvars, lvars, gvars, xvars >>

(***************************************************************************)
(* Strings and paths (std::path on a Unix platform).                        *)
(***************************************************************************)
Max(a, b) == IF a >= b THEN a ELSE b
Min(a, b) == IF a <= b THEN a ELSE b

\* The pieces of s between occurrences of the character c.
RECURSIVE SplitOn(_, _)
SplitOn(s, c) ==
    IF \A i \in 1..Len(s) : s[i] # c THEN << s >>
    ELSE LET k == CHOOSE i \in 1..Len(s) :
                      s[i] = c /\ \A j \in 1..(i - 1) : s[j] # c
         IN  << SubSeq(s, 1, k - 1) >> \o SplitOn(SubSeq(s, k + 1, Len(s)), c)

\* str::replace(from, to) for single characters.
ReplaceChar(s, from, to) ==
    [i \in 1..Len(s) |-> IF s[i] = from THEN to ELSE s[i]]

\* The prefix of s before its first NUL character (the whole of s if none).
BeforeNul(s) ==
    IF \A i \in 1..Len(s) : s[i] # "NUL" THEN s
    ELSE SubSeq(s, 1, (CHOOSE i \in 1..Len(s) :
                          s[i] = "NUL" /\ \A j \in 1..(i - 1) : s[j] # "NUL") - 1)

ComponentOf(seg) ==
    IF seg = << ".", "." >> THEN [kind |-> "ParentDir", name |-> seg]
    ELSE IF seg = << "." >> THEN [kind |-> "CurDir", name |-> seg]
    ELSE [kind |-> "Normal", name |-> seg]

RECURSIVE KeepSegments(_, _, _)
KeepSegments(segs, i, hasRoot) ==
    IF i > Len(segs) THEN << >>
    ELSE LET seg == segs[i]
             skip == seg = << >> \/ (seg = << "." >> /\ (i > 1 \/ hasRoot))
         IN  (IF skip THEN << >> ELSE << ComponentOf(seg) >>)
             \o KeepSegments(segs, i + 1, hasRoot)

\* Path::components(): repeated separators and inner "." segments vanish, a
\* leading "/" is the RootDir component, a leading "." is CurDir.
Components(s) ==
    LET hasRoot == Len(s) > 0 /\ s[1] = "/"
    IN  (IF hasRoot THEN << [kind |-> "RootDir", name |-> << >>] >> ELSE << >>)
        \o KeepSegments(SplitOn(s, "/"), 1, hasRoot)

\* PathBuf::join: an absolute argument replaces the base.
Join(base, rel) ==
    IF Len(rel) > 0 /\ rel[1] = "/" THEN rel
    ELSE IF base = << >> THEN rel
    ELSE IF base[Len(base)] = "/" THEN base \o rel
    ELSE base \o << "/" >> \o rel

\* Path::parent() on components: None for the empty path and for the root.
HasParent(comps) ==
    comps # << >> /\ comps[Len(comps)].kind # "RootDir"
Parent(comps) == SubSeq(comps, 1, Len(comps) - 1)

\* The string of a relative path made of the given component names.
RECURSIVE PathString(_)
PathString(names) ==
    IF names = << >> THEN << >>
    ELSE IF Len(names) = 1 THEN names[1]
    ELSE names[1] \o << "/" >> \o PathString(Tail(names))


(***************************************************************************)
(* The container reader's view of an entry name (the zip crate, called at  *)
(* extract.rs:49 and main.rs:316).                                          *)
(***************************************************************************)
NormalNames(comps) ==
    LET normal == SelectSeq(comps, LAMBDA c : c.kind = "Normal")
    IN  [i \in 1..Len(normal) |-> normal[i].name]

\* (A mangled_name that returned the name as it stands.)
mangled_name_keeps_dots(name) == name

\* ZipFile::mangled_name(): the name up to its first NUL, with '\' read as a
\* separator, reduced to its Normal components.
mangled_name(name) ==
    PathString(NormalNames(Components(ReplaceChar(BeforeNul(name), "\\", "/"))))

\* ZipFile::enclosed_name(): None when the name holds a NUL, is rooted, or
\* climbs above its starting directory at any point; the name itself otherwise.
RECURSIVE Climbs(_, _)
Climbs(comps, depth) ==
    IF comps = << >> THEN FALSE
    ELSE LET c == Head(comps)
         IN  CASE c.kind = "RootDir"   -> TRUE
               [] c.kind = "ParentDir" ->
                      IF depth = 0 THEN TRUE ELSE Climbs(Tail(comps), depth - 1)
               [] c.kind = "Normal"    -> Climbs(Tail(comps), depth + 1)
               [] OTHER                -> Climbs(Tail(comps), depth)

enclosed_name_is_some(name) ==
    /\ \A i \in 1..Len(name) : name[i] # "NUL"
    /\ ~Climbs(Components(name), 0)

\* file.name().ends_with('/')
EndsWithSlash(name) == Len(name) > 0 /\ name[Len(name)] = "/"

(***************************************************************************)
(* The filesystem.  A location is where a path resolves to, told from the  *)
(* working directory: `up` levels above it (or from the root), then `down`  *)
(* through the named directories.  The working directory, its ancestors    *)
(* and the root exist as directories; every other node is in the map.      *)
(***************************************************************************)
Cwd == [root |-> FALSE, up |-> 0, down |-> << >>]

HasNode(fs, loc) == loc.down = << >> \/ loc \in DOMAIN fs
IsDirAt(fs, loc) ==
    loc.down = << >> \/ (loc \in DOMAIN fs /\ fs[loc].kind = "dir")
IsFileAt(fs, loc) == loc \in DOMAIN fs /\ fs[loc].kind = "file"

StepLoc(loc, c) ==
    CASE c.kind = "RootDir"   -> [root |-> TRUE, up |-> 0, down |-> << >>]
      [] c.kind = "CurDir"    -> loc
      [] c.kind = "ParentDir" ->
             IF loc.down # << >>
             THEN [loc EXCEPT !.down = SubSeq(loc.down, 1, Len(loc.down) - 1)]
             ELSE IF loc.root THEN loc
             ELSE [loc EXCEPT !.up = loc.up + 1]
      [] OTHER                -> [loc EXCEPT !.down = Append(loc.down, c.name)]

\* Path resolution: every directory walked through must exist; the last
\* component need not.
RECURSIVE Resolve(_, _, _)
Resolve(fs, loc, comps) ==
    IF comps = << >> THEN [err |-> "ok", loc |-> loc]
    ELSE IF ~HasNode(fs, loc) THEN [err |-> "ENOENT", loc |-> loc]
    ELSE IF ~IsDirAt(fs, loc) THEN [err |-> "ENOTDIR", loc |-> loc]
    ELSE Resolve(fs, StepLoc(loc, Head(comps)), Tail(comps))

\* A symbolic link is followed to the location it names (the links met name
\* files, never directories or other links).
Follow(fs, loc) ==
    IF loc \in DOMAIN fs /\ fs[loc].kind = "link" THEN fs[loc].to ELSE loc

\* stat(2): the empty path names nothing; a link in the last place is
\* followed.
Stat(fs, comps) ==
    IF comps = << >> THEN [err |-> "ENOENT", loc |-> Cwd]
    ELSE LET r == Resolve(fs, Cwd, comps)
             t == [r EXCEPT !.loc = Follow(fs, r.loc)]
         IN  IF t.err = "ok" /\ ~HasNode(fs, t.loc)
             THEN [err |-> "ENOENT", loc |-> t.loc] ELSE t

\* Path::exists(), Path::is_dir(), Path::is_file()
Exists(fs, comps) == Stat(fs, comps).err = "ok"
IsDir(fs, comps)  == Exists(fs, comps) /\ IsDirAt(fs, Stat(fs, comps).loc)
IsFile(fs, comps) == Exists(fs, comps) /\ IsFileAt(fs, Stat(fs, comps).loc)

DirNode == [kind |-> "dir", data |-> << >>, mode |-> 493]
NewFileNode == [kind |-> "file", data |-> << >>, mode |-> 420]

\* mkdir(2)
Mkdir(fs, comps) ==
    IF comps = << >> THEN [err |-> "ENOENT", fs |-> fs]
    ELSE LET r == Resolve(fs, Cwd, comps)
         IN  IF r.err # "ok" THEN [err |-> r.err, fs |-> fs]
             ELSE IF HasNode(fs, r.loc) THEN [err |-> "EEXIST", fs |-> fs]
             ELSE [err |-> "ok", fs |-> (r.loc :> DirNode) @@ fs]

\* std::fs::create_dir_all
RECURSIVE create_dir_all(_, _)
create_dir_all(fs, comps) ==
    IF comps = << >> THEN [err |-> "ok", fs |-> fs]
    ELSE LET first == Mkdir(fs, comps)
         IN  IF first.err = "ok" THEN first
             ELSE IF first.err # "ENOENT"
             THEN IF IsDir(fs, comps) THEN [err |-> "ok", fs |-> fs] ELSE first
             ELSE IF ~HasParent(comps) THEN [err |-> "ENOENT", fs |-> fs]
             ELSE LET up == create_dir_all(fs, Parent(comps))
                  IN  IF up.err # "ok" THEN up
                      ELSE LET again == Mkdir(up.fs, comps)
                           IN  IF again.err = "ok" THEN again
                               ELSE IF IsDir(up.fs, comps)
                               THEN [err |-> "ok", fs |-> up.fs]
                               ELSE again

\* File::create: open for writing, creating the file or truncating it.
FileCreate(fs, comps) ==
    IF comps = << >> THEN [err |-> "ENOENT", fs |-> fs, loc |-> Cwd]
    ELSE LET r == Resolve(fs, Cwd, comps)
         IN  IF r.err # "ok" THEN [err |-> r.err, fs |-> fs, loc |-> r.loc]
             ELSE IF IsDirAt(fs, r.loc)
             THEN [err |-> "EISDIR", fs |-> fs, loc |-> r.loc]
             ELSE IF r.loc \in DOMAIN fs
             THEN [err |-> "ok", loc |-> r.loc,
                   fs  |-> [fs EXCEPT ![r.loc].data = << >>]]
             ELSE [err |-> "ok", loc |-> r.loc,
                   fs  |-> (r.loc :> NewFileNode) @@ fs]

\* Appending the bytes lo..hi-1 of original `id` to a content.
AppendData(data, id, lo, hi) ==
    IF hi <= lo THEN data
    ELSE IF data # << >> /\ data[Len(data)][1] = id /\ data[Len(data)][3] = lo
    THEN [data EXCEPT ![Len(data)] = << id, data[Len(data)][2], hi >>]
    ELSE Append(data, << id, lo, hi >>)

RECURSIVE AppendChunks(_, _)
AppendChunks(data, chunks) ==
    IF chunks = << >> THEN data
    ELSE AppendChunks(AppendData(data, chunks[1][1], chunks[1][2], chunks[1][3]),
                      Tail(chunks))

\* The number of bytes of a content.
RECURSIVE DataLen(_)
DataLen(data) ==
    IF data = << >> THEN 0
    ELSE (data[1][3] - data[1][2]) + DataLen(Tail(data))

\* The bytes from..to-1 of a content.
RECURSIVE Slice(_, _, _)
Slice(data, from, to) ==
    IF data = << >> \/ to <= from THEN << >>
    ELSE LET c == data[1]
             n == c[3] - c[2]
         IN  IF from >= n THEN Slice(Tail(data), from - n, to - n)
             ELSE AppendChunks(<< << c[1], c[2] + from, c[2] + Min(n, to) >> >>,
                               Slice(Tail(data), 0, to - n))

\* Write::write_all on an open file.
WriteAt(fs, loc, chunks) ==
    [fs EXCEPT ![loc].data = AppendChunks(fs[loc].data, chunks)]

(***************************************************************************)
(* The archive reader: extract.rs extract / extract_file, core.rs extract, *)
(* main.rs extract.                                                         *)
(***************************************************************************)
KiB == 1024
MiB == 1048576

\* How many times one transfer may see a read return fewer bytes than asked.
MaxShortReads == 1
\* The longest archive handed to the reader.
MaxEntries == 2

NoCopy == [loc |-> Cwd, off |-> 0, buf |-> 0, short |-> 0]

\* Where the output directory is, and what lies inside it.
OutLoc == Resolve(<< >>, Cwd, Components(output_dir)).loc
Inside(loc) ==
    /\ loc.root = OutLoc.root
    /\ loc.up = OutLoc.up
    /\ Len(loc.down) >= Len(OutLoc.down)
    /\ SubSeq(loc.down, 1, Len(OutLoc.down)) = OutLoc.down

\* The declared sizes of the entries the listing pass can read.
RECURSIVE SumSizes(_)
SumSizes(entries) ==
    IF entries = << >> THEN 0
    ELSE (IF Head(entries).bad THEN 0 ELSE Head(entries).size)
         + SumSizes(Tail(entries))

\* if !output_dir.exists() { create_dir_all(output_dir)? }
EnsureOutputDir(fs, dir) ==
    IF Exists(fs, Components(dir)) THEN [err |-> "ok", fs |-> fs]
    ELSE create_dir_all(fs, Components(dir))

\* if let Some(p) = outpath.parent() { if !p.exists() { create_dir_all(p)? } }
EnsureParent(fs, outpath) ==
    IF HasParent(outpath) /\ ~Exists(fs, Parent(outpath))
    THEN create_dir_all(fs, Parent(outpath))
    ELSE [err |-> "ok", fs |-> fs]

\* (An overwrite test that never skips.)
SkipNothing(fs, outpath, ow) == FALSE

\* !overwrite && outpath.exists()
SkipExisting(fs, outpath, ow) == ~ow /\ Exists(fs, outpath)

\* The initial buffer of extract_file (32 KiB below 1 MiB, else 64 KiB) and of
\* core.rs extract (64 KiB).
ExtractInitialBuffer(impl, size) ==
    IF impl = "core" THEN 64 * KiB
    ELSE IF size < MiB THEN 32 * KiB ELSE 64 * KiB

\* The buffer after a read of n bytes into a buffer of len bytes.
ExtractGrow(impl, len, n) ==
    IF impl = "core"
    THEN IF len < 8 * MiB THEN len * 2 ELSE len
    ELSE IF len < 2 * MiB /\ n = len THEN Min(len * 2, 2 * MiB) ELSE len

\* One loop iteration of extract.rs / core.rs up to the copy loop: the entry's
\* outcome ("err", "skip", "dir", "file"), the filesystem after it, and the
\* location of the file opened for writing.
ExtractEntryStep(fs, e, ow, dir) ==
    LET outpath == Components(Join(dir, mangled_name(e.name)))
        mk      == EnsureParent(fs, outpath)
    IN  IF e.bad THEN [outcome |-> "err", fs |-> fs, loc |-> Cwd]
        ELSE IF mk.err # "ok" THEN [outcome |-> "err", fs |-> mk.fs, loc |-> Cwd]
        ELSE IF SkipExisting(mk.fs, outpath, ow)
        THEN [outcome |-> "skip", fs |-> mk.fs, loc |-> Cwd]
        ELSE IF EndsWithSlash(e.name)
        THEN LET d == create_dir_all(mk.fs, outpath)
             IN  [outcome |-> IF d.err = "ok" THEN "dir" ELSE "err",
                  fs |-> d.fs, loc |-> Cwd]
        ELSE LET c == FileCreate(mk.fs, outpath)
             IN  [outcome |-> IF c.err = "ok" THEN "file" ELSE "err",
                  fs |-> c.fs, loc |-> c.loc]

\* One loop iteration of main.rs extract, the copy (io::copy) and the
\* permissions included: outcome "err", "reject", "skip", "dir" or "file".
MainEntryStep(fs, e, ow, dir) ==
    LET outpath == Components(Join(dir, e.name))
    IN  IF e.bad THEN [outcome |-> "err", fs |-> fs, loc |-> Cwd]
        ELSE IF ~enclosed_name_is_some(e.name)
        THEN [outcome |-> "reject", fs |-> fs, loc |-> Cwd]
        ELSE IF EndsWithSlash(e.name)
        THEN LET d == create_dir_all(fs, outpath)
             IN  [outcome |-> IF d.err = "ok" THEN "dir" ELSE "err",
                  fs |-> d.fs, loc |-> Cwd]
        ELSE LET mk == EnsureParent(fs, outpath)
             IN  IF mk.err # "ok"
                 THEN [outcome |-> "err", fs |-> mk.fs, loc |-> Cwd]
                 ELSE IF SkipExisting(mk.fs, outpath, ow)
                 THEN [outcome |-> "skip", fs |-> mk.fs, loc |-> Cwd]
                 ELSE LET c == FileCreate(mk.fs, outpath)
                      IN  IF c.err # "ok"
                          THEN [outcome |-> "err", fs |-> c.fs, loc |-> c.loc]
                          ELSE LET w == WriteAt(c.fs, c.loc, e.data)
                               IN  IF e.corrupt
                                   THEN [outcome |-> "err", fs |-> w,
                                         loc |-> c.loc]
                                   ELSE [outcome |-> "file", loc |-> c.loc,
                                         fs |-> IF e.mode >= 0
                                                THEN [w EXCEPT
                                                        ![c.loc].mode = e.mode]
                                                ELSE w]

\* The locations an operation created, and the file it opened for writing.
Created(before, after) == DOMAIN after \ DOMAIN before
Opened(step) == IF step.outcome = "file" THEN { step.loc } ELSE { }

\* Lines 27-45 of extract.rs (133-151 of core.rs, 296-312 of main.rs): open the
\* container, make sure the output directory exists, size the progress bar.
\* extract.rs and core.rs open the container first; main.rs makes the output
\* directory first (297-299) and opens the container after it (301-303).
ExtractBegin ==
    /\ epc = "init"
    /\ LET opens == zipfile = "archive"
           mk    == IF opens \/ eimpl = "main"
                    THEN EnsureOutputDir(disk, output_dir)
                    ELSE [err |-> "ok", fs |-> disk]
       IN  /\ disk' = mk.fs
           /\ touched' = touched \cup Created(disk, mk.fs)
           /\ IF mk.err # "ok" \/ ~opens
              THEN /\ epc' = "done" /\ eres' = "err"
                   /\ UNCHANGED etotal
              ELSE /\ epc' = "loop" /\ eres' = eres
                   /\ etotal' = IF eimpl = "main" THEN Len(archive)
                                ELSE SumSizes(archive)
    /\ UNCHANGED << archive, overwrite, eimpl, eidx, prefs, position, ecur,
                    output_dir >>
    /\ UNCHANGED << cvars, lvars, gvars, xvars >>

\* One iteration of the entry loop of extract.rs (47-74) and core.rs (153-187),
\* up to the first read of the copy loop.
ExtractEntry ==
    /\ epc = "loop" /\ eimpl # "main" /\ eidx <= Len(archive)
    /\ LET e    == archive[eidx]
           step == ExtractEntryStep(disk, e, overwrite, output_dir)
       IN  /\ disk' = step.fs
           /\ touched' = touched \cup Created(disk, step.fs) \cup Opened(step)
           /\ CASE step.outcome = "err" ->
                     /\ epc' = "done" /\ eres' = "err"
                     /\ UNCHANGED << eidx, position, ecur >>
                [] step.outcome = "skip" ->
                     /\ position' = IF eimpl = "extract"
                                    THEN position + e.size ELSE position
                     /\ eidx' = eidx + 1
                     /\ UNCHANGED << epc, eres, ecur >>
                [] step.outcome = "dir" ->
                     /\ eidx' = eidx + 1
                     /\ UNCHANGED << epc, eres, position, ecur >>
                [] OTHER ->
                     /\ epc' = "copy"
                     /\ ecur' = [loc |-> step.loc, off |-> 0, short |-> 0,
                                 buf |-> ExtractInitialBuffer(eimpl, e.size)]
                     /\ UNCHANGED << eidx, eres, position >>
    /\ UNCHANGED << archive, overwrite, eimpl, prefs, etotal, output_dir >>
    /\ UNCHANGED << cvars, lvars, gvars, xvars >>

\* One iteration of the copy loop (extract.rs 102-115, core.rs 173-185) that
\* reads n > 0 bytes: all the buffer holds, or fewer.
ExtractRead ==
    /\ epc = "copy" /\ ecur.off < archive[eidx].size
    /\ LET full == Min(ecur.buf, archive[eidx].size - ecur.off)
       IN  \E n \in { full } \cup
                    { k \in { full \div 2 } :
                          k >= 1 /\ ecur.short < MaxShortReads } :
              /\ disk' = WriteAt(disk, ecur.loc,
                                  Slice(archive[eidx].data, ecur.off,
                                        ecur.off + n))
              /\ position' = position + n
              /\ ecur' = [ecur EXCEPT !.off = ecur.off + n,
                                      !.buf = ExtractGrow(eimpl, ecur.buf, n),
                                      !.short = IF n < full THEN @ + 1 ELSE @]
    /\ UNCHANGED << archive, overwrite, eimpl, epc, eidx, eres, prefs, etotal,
                    touched, output_dir >>
    /\ UNCHANGED << cvars, lvars, gvars, xvars >>

\* The read that returns 0: the copy loop ends, the file is flushed and the
\* entry loop goes on.
ExtractEndFile ==
    /\ epc = "copy" /\ ecur.off = archive[eidx].size
    /\ ~archive[eidx].corrupt
    /\ epc' = "loop"
    /\ eidx' = eidx + 1
    /\ ecur' = NoCopy
    /\ UNCHANGED << archive, overwrite, eimpl, eres, disk, prefs, position,
                    etotal, touched, output_dir >>
    /\ UNCHANGED << cvars, lvars, gvars, xvars >>

\* (A copy loop that takes the failed read for the end of the entry.)
ExtractReadFailsContinues ==
    /\ epc = "copy" /\ ecur.off = archive[eidx].size
    /\ archive[eidx].corrupt
    /\ epc' = "loop"
    /\ eidx' = eidx + 1
    /\ ecur' = NoCopy
    /\ UNCHANGED << archive, overwrite, eimpl, eres, disk, prefs, position,
                    etotal, touched, output_dir >>
    /\ UNCHANGED << cvars, lvars, gvars, xvars >>

\* The last read of an entry whose bytes do not match its checksum fails
\* (extract.rs:103, `file.read(&mut buffer)?`).
ExtractReadFails ==
    /\ epc = "copy" /\ ecur.off = archive[eidx].size
    /\ archive[eidx].corrupt
    /\ epc' = "done"
    /\ eres' = "err"
    /\ UNCHANGED << archive, overwrite, eimpl, eidx, disk, prefs, position,
                    etotal, touched, ecur, output_dir >>
    /\ UNCHANGED << cvars, lvars, gvars, xvars >>

\* One iteration of the entry loop of main.rs extract (314-354).
MainExtractEntry ==
    /\ epc = "loop" /\ eimpl = "main" /\ eidx <= Len(archive)
    /\ LET e    == archive[eidx]
           step == MainEntryStep(disk, e, overwrite, output_dir)
       IN  /\ disk' = step.fs
           /\ touched' = touched \cup Created(disk, step.fs) \cup Opened(step)
           /\ IF step.outcome = "err"
              THEN /\ epc' = "done" /\ eres' = "err"
                   /\ UNCHANGED << eidx, position >>
              ELSE /\ eidx' = eidx + 1
                   /\ position' = IF step.outcome = "reject"
                                  THEN position ELSE position + 1
                   /\ UNCHANGED << epc, eres >>
    /\ UNCHANGED << archive, overwrite, eimpl, prefs, etotal, ecur, output_dir >>
    /\ UNCHANGED << cvars, lvars, gvars, xvars >>

\* After the last entry: progress.finish() moves the bar to its length, and
\* the job returns Ok.
ExtractFinish ==
    /\ epc = "loop" /\ eidx > Len(archive)
    /\ epc' = "done"
    /\ eres' = "ok"
    /\ position' = etotal
    /\ UNCHANGED << archive, overwrite, eimpl, eidx, disk, prefs, etotal,
                    touched, ecur, output_dir >>
    /\ UNCHANGED << cvars, lvars, gvars, xvars >>

ExtractNext ==
    \/ ExtractBegin
    \/ ExtractEntry
    \/ ExtractRead
    \/ ExtractReadFails
    \/ ExtractEndFile
    \/ MainExtractEntry
    \/ ExtractFinish


\* The writer when no compress job runs.
NoFile == [loc |-> Cwd, size |-> 0, off |-> 0, buf |-> 0, short |-> 0,
           ret |-> "none",
           mapfail |-> FALSE]
U32(hi, lo) == [hi |-> hi, lo |-> lo]

NoTotals == [total_size |-> 0, total_compressed_size |-> 0, overall_ratio |-> 0]
ListIdle ==
    /\ limpl = "list" /\ larchive = << >> /\ lpc = "idle" /\ lidx = 1
    /\ ltotals = NoTotals /\ lrows = << >>

NoOutput == [unit |-> 0 - 1, hundredths |-> 0]
NoArg == [some |-> FALSE, path |-> << >>]
NoName == [done |-> FALSE, panic |-> FALSE, dots |-> FALSE, shown |-> << >>]
HelpersIdle ==
    /\ fsize = << >> /\ fout = NoOutput /\ cli_output = NoArg
    /\ zipfile = "archive"
    /\ dname = << >> /\ dout = NoName

GuiIdle ==
    /\ gimpl = "gui" /\ operation = "Compress"
    /\ gui_source = FALSE /\ gui_output = FALSE
    /\ operation_state = "Idle" /\ result_receiver = 0 /\ jobs = << >>
    /\ HelpersIdle

WriterIdle ==
    /\ cimpl = "compress"
    /\ source_path = << >>
    /\ output_path = << >>
    /\ level = U32(0, 0)
    /\ cpc = "idle"
    /\ cres = "none"
    /\ zip = << >>
    /\ finished = FALSE
    /\ walk = << >>
    /\ total_size = 0
    /\ chan = << >>
    /\ tx_alive = FALSE
    /\ relay = [pc |-> "none", processed_size |-> 0, faulty |-> FALSE]
    /\ cposition = 0
    /\ sent = 0
    /\ ccur = NoFile

(***************************************************************************)
(* The inputs of the reader: containers holding ordinary names, directory  *)
(* entries and names that try to leave the output directory; an output     *)
(* directory that is absent, empty or already populated.                    *)
(***************************************************************************)
Bytes(id, size) == IF size = 0 THEN << >> ELSE << << id, 0, size >> >>

Entry(name, id, size, mode) ==
    [name |-> name, size |-> size, data |-> Bytes(id, size), mode |-> mode,
     bad |-> FALSE, corrupt |-> FALSE]

EntryPool ==
    { Entry(<< "a" >>, 1, 3, 420),
      Entry(<< "d", "/" >>, 2, 0, 493),
      Entry(<< "d", "/", "a" >>, 3, 40 * KiB, 0 - 1),
      Entry(<< ".", ".", "/", "a" >>, 4, 3, 420),
      Entry(<< "/", "b" >>, 5, 1, 420),
      Entry(<< "a", "/", ".", ".", "/", "b" >>, 6, 3, 384),
      Entry(<< "a", "/", ".", ".", "/", ".", ".", "/", "b" >>, 7, 3, 420),
      Entry(<< ".", ".", "\\", "b" >>, 8, 3, 420),
      Entry(<< ".", ".", "/" >>, 9, 0, 493),
      Entry(<< "a", "NUL", "b" >>, 10, 1, 420),
      [Entry(<< "b" >>, 11, 3, 420) EXCEPT !.bad = TRUE],
      [Entry(<< "c" >>, 12, 3, 420) EXCEPT !.corrupt = TRUE] }

Archives == UNION { [1..n -> EntryPool] : n \in 1..MaxEntries }

At(down) == [root |-> FALSE, up |-> 0, down |-> down]
OldFile(id, size) == [kind |-> "file", data |-> Bytes(id, size), mode |-> 384]

\* Files next to and above the output directory, which no job may touch.
Surroundings ==
    (At(<< << "a" >> >>) :> OldFile(101, 4))
    @@ (At(<< << "b" >> >>) :> OldFile(102, 4))
    @@ ([root |-> FALSE, up |-> 1, down |-> << << "a" >> >>] :> OldFile(103, 4))
    @@ ([root |-> TRUE, up |-> 0, down |-> << << "b" >> >>] :> OldFile(104, 4))

OutputDirs == { << "o" >> }

PreStates ==
    { Surroundings,
      (At(<< << "o" >> >>) :> DirNode) @@ Surroundings,
      (At(<< << "o" >> >>) :> DirNode)
        @@ (At(<< << "o" >>, << "a" >> >>) :> OldFile(105, 5))
        @@ (At(<< << "o" >>, << "b" >> >>) :> OldFile(106, 5))
        @@ (At(<< << "o" >>, << "d" >> >>) :> DirNode)
        @@ (At(<< << "o" >>, << "d" >>, << "a" >> >>) :> OldFile(107, 5))
        @@ Surroundings,
      (At(<< << "o" >> >>) :> DirNode)
        @@ (At(<< << "o" >>, << "a" >> >>) :> DirNode)
        @@ (At(<< << "o" >>, << "d" >> >>) :> OldFile(108, 5))
        @@ Surroundings }

ExtractInit ==
    /\ archive \in Archives
    /\ overwrite \in BOOLEAN
    /\ eimpl \in { "extract", "core", "main" }
    /\ output_dir \in OutputDirs
    /\ prefs \in PreStates
    /\ disk = prefs
    /\ epc = "init"
    /\ eidx = 1
    /\ eres = "none"
    /\ position = 0
    /\ etotal = 0
    /\ touched = { }
    /\ ecur = NoCopy
    /\ zipfile \in { "archive", "missing", "garbage" }
    /\ fsize = << >> /\ fout = NoOutput /\ cli_output = NoArg
    /\ dname = << >> /\ dout = NoName
    /\ WriterIdle
    /\ ListIdle
    /\ gimpl = "gui" /\ operation = "Compress"
    /\ gui_source = FALSE /\ gui_output = FALSE
    /\ operation_state = "Idle" /\ result_receiver = 0 /\ jobs = << >>

SpecExtract == ExtractInit /\ [][ExtractNext]_vars


(***************************************************************************)
(* Properties of the archive reader.                                       *)
(***************************************************************************)

\* C2: every directory and file that extract creates or writes lies inside
\* the designated output directory, in every state of the extraction loop
\* and for every entry name: nothing outside it is created, and nothing that
\* was outside it changes.
ExtractStaysInside ==
    /\ \A loc \in touched : Inside(loc)
    /\ \A loc \in DOMAIN disk \ DOMAIN prefs : Inside(loc)
    /\ \A loc \in DOMAIN prefs :
           ~Inside(loc) => loc \in DOMAIN disk /\ disk[loc] = prefs[loc]

\* An entry named "../a" was extracted by extract.rs, and its bytes are in
\* the file "a" of the output directory.
ExtractStaysInsideWitness ==
    /\ eres = "ok" /\ eimpl = "extract"
    /\ archive[1].name = << ".", ".", "/", "a" >>
    /\ At(<< << "o" >>, << "a" >> >>) \in touched
    /\ disk[At(<< << "o" >>, << "a" >> >>)].data = archive[1].data

\* C3: with overwrite=false, a file that existed before the job has, in
\* every state of the job (so also when it returns, with success or with an
\* error), the content and permissions it had before.
NoOverwriteKeepsFiles ==
    overwrite = FALSE =>
        \A loc \in DOMAIN prefs :
            prefs[loc].kind = "file" =>
                loc \in DOMAIN disk /\ disk[loc] = prefs[loc]

\* A job without overwrite ended after it met an entry whose target was a
\* file that was already there.
NoOverwriteKeepsFilesWitness ==
    /\ eres = "ok" /\ overwrite = FALSE /\ eimpl = "extract"
    /\ archive[1].name = << "a" >>
    /\ At(<< << "o" >>, << "a" >> >>) \in DOMAIN prefs
    /\ prefs[At(<< << "o" >>, << "a" >> >>)].kind = "file"

\* C4: when the entry loop of extract has run through every entry (the job is
\* about to return success), the accumulated progress equals the progress
\* total, the sum of the declared sizes: a skipped entry has advanced the
\* progress by its full size.  Stated for extract.rs and core.rs, whose
\* progress counts bytes.
SkippedEntriesCountTowardProgress ==
    (epc = "loop" /\ eidx > Len(archive) /\ eimpl \in { "extract", "core" })
        => position = etotal


(***************************************************************************)
(* The archive writer: compress.rs compress, compress_directory,           *)
(* compress_file, read_and_write_file, and the relay thread it spawns.      *)
(***************************************************************************)
rvars == << archive, overwrite, eimpl, epc, eidx, eres, position, etotal,
            touched, ecur, output_dir >>

\* `level as i32` of a u32 given as hi * 2^31 + lo.
AsI32(l) == IF l.hi = 1 THEN (l.lo - 2147483647) - 1 ELSE l.lo

\* FileOptions::default().compression_method(Deflated)
\*     .compression_level(Some(level as i32))
FileOptions(l) == [method |-> "Deflated", zlevel |-> AsI32(l), mode |-> 420]

\* ZipWriter::start_file: the container writer takes a deflate level of 0..9
\* and refuses any other ("Unsupported compression level").
StartFileOk(options) ==
    options.method = "Deflated" => options.zlevel >= 0 /\ options.zlevel <= 9

NewEntry(name, options) ==
    [name |-> name, method |-> options.method, zlevel |-> options.zlevel,
     mode |-> options.mode, data |-> << >>]

\* (A writer that loses what it is handed.)
ZipWriteLosesBytes(z, chunks) == z

\* zip.write_all: the bytes go to the entry started last.
ZipWrite(z, chunks) ==
    [z EXCEPT ![Len(z)].data = AppendChunks(z[Len(z)].data, chunks)]

\* (A strip_prefix that takes the source directory's own name off as well.)
strip_prefix_and_name(comps, base) == SubSeq(comps, Len(base) + 2, Len(comps))
strip_prefix(comps, base) == SubSeq(comps, Len(base) + 1, Len(comps))

\* Path::strip_prefix on components, and the string of what is left.
IsPrefixOf(base, comps) ==
    Len(base) <= Len(comps) /\ SubSeq(comps, 1, Len(base)) = base
CompString(comps) == PathString([i \in 1..Len(comps) |-> comps[i].name])

\* (A base that is the source itself.)
BasePathIsSource(src) == Components(src)

\* source_path.parent().unwrap_or(Path::new(""))
BasePath(src) ==
    IF HasParent(Components(src)) THEN Parent(Components(src)) ELSE << >>

\* source_path.file_name().unwrap_or_default()
FileName(src) ==
    LET comps == Components(src)
    IN  IF comps # << >> /\ comps[Len(comps)].kind = "Normal"
        THEN comps[Len(comps)].name ELSE << >>

\* The entries of a directory, in the order read_dir gives them.
ChildrenOf(fs, loc) ==
    { l \in DOMAIN fs :
        /\ l.root = loc.root /\ l.up = loc.up
        /\ Len(l.down) = Len(loc.down) + 1
        /\ SubSeq(l.down, 1, Len(loc.down)) = loc.down }

RECURSIVE SetToSeq(_)
SetToSeq(S) ==
    IF S = { } THEN << >>
    ELSE LET x == CHOOSE y \in S : TRUE IN << x >> \o SetToSeq(S \ { x })

Readable(fs, loc) == loc \notin DOMAIN fs \/ fs[loc].mode # 0

\* WalkDir::new(path): the entry itself, then, depth first, what is below it;
\* a directory that cannot be read yields an error after its own entry.
RECURSIVE WalkFrom(_, _, _)
RECURSIVE WalkChildren(_, _, _)
WalkFrom(fs, path, loc) ==
    << [path |-> path, loc |-> loc, err |-> FALSE] >>
    \o (IF ~IsDirAt(fs, loc) THEN << >>
        ELSE IF ~Readable(fs, loc)
        THEN << [path |-> path, loc |-> loc, err |-> TRUE] >>
        ELSE WalkChildren(fs, path, SetToSeq(ChildrenOf(fs, loc))))
WalkChildren(fs, path, kids) ==
    IF kids = << >> THEN << >>
    ELSE WalkFrom(fs, Join(path, kids[1].down[Len(kids[1].down)]), kids[1])
         \o WalkChildren(fs, path, Tail(kids))

WalkDir(fs, path) == WalkFrom(fs, path, Stat(fs, Components(path)).loc)

\* metadata()?.len()
FileLen(fs, loc) == DataLen(fs[loc].data)

RECURSIVE SumFiles(_, _)
SumFiles(fs, entries) ==
    IF entries = << >> THEN 0
    ELSE (IF IsFileAt(fs, entries[1].loc) THEN FileLen(fs, entries[1].loc) ELSE 0)
         + SumFiles(fs, Tail(entries))

\* Lines 38-48: the sizing pass.
SizingPass(fs, src) ==
    IF IsDir(fs, Components(src))
    THEN LET w == WalkDir(fs, src)
         IN  IF \E i \in 1..Len(w) : w[i].err
             THEN [err |-> "Err(WalkDir)", total |-> 0]
             ELSE [err |-> "ok", total |-> SumFiles(fs, w)]
    ELSE IF Exists(fs, Components(src))
    THEN [err |-> "ok", total |-> FileLen(fs, Stat(fs, Components(src)).loc)]
    ELSE [err |-> "Err(Io)", total |-> 0]

\* read_and_write_file: the initial buffer and the buffer after a read.
InitialBuffer(size) == IF size < MiB THEN 32 * KiB ELSE 64 * KiB
\* (A buffer that doubles after any read.)
GrowAfterAnyRead(len, n) ==
    IF len < 2 * MiB THEN Min(len * 2, 2 * MiB) ELSE len

Grow(len, n) ==
    IF len < 2 * MiB /\ n = len THEN Min(len * 2, 2 * MiB) ELSE len

\* if file_size > 100 * 1024 * 1024
UsesMmap(size) == size > 100 * MiB

\* File::open(path)? and file.metadata()?.len(): the copy about to start.
OpenFile(fs, loc, ret) ==
    [loc |-> loc, size |-> FileLen(fs, loc), off |-> 0, short |-> 0,
     buf |-> InitialBuffer(FileLen(fs, loc)), mapfail |-> FALSE, ret |-> ret]

\* tx.send(n): the delta reaches the channel while the receiver lives; an
\* error is logged and dropped.
Send(n) ==
    /\ chan' = IF relay.pc = "run" THEN Append(chan, n) ELSE chan
    /\ sent' = sent + n

\* A `?` that returns the error: the locals are dropped, the sender with them,
\* and ZipWriter's Drop writes the central directory.
Errors ==
    { "Err(Io)", "Err(Zip)", "Err(WalkDir)", "Err(StripPrefix)", "Err(anyhow)" }
ReturnErr(kind) ==
    /\ cpc' = "done"
    /\ cres' = kind
    /\ tx_alive' = FALSE
    /\ finished' = TRUE

\* Lines 26-35: create the output file, the writer, the options, the channel.
CompressBegin ==
    /\ cpc = "start" /\ cimpl \in { "compress", "core" }
    /\ LET c == FileCreate(disk, Components(output_path))
       IN  /\ disk' = c.fs
           /\ IF c.err # "ok"
              THEN /\ cpc' = "done" /\ cres' = "Err(Io)"
                   /\ UNCHANGED tx_alive
              ELSE /\ cpc' = "sizing" /\ tx_alive' = TRUE
                   /\ UNCHANGED cres
    /\ UNCHANGED << cimpl, source_path, output_path, level, zip, finished, walk,
                    total_size, chan, relay, cposition, sent, ccur, prefs,
                    rvars, lvars, gvars, xvars >>

\* Lines 38-50: the sizing pass and the progress bar.
CompressSizing ==
    /\ cpc = "sizing"
    /\ LET r == SizingPass(disk, source_path)
       IN  IF r.err # "ok"
           THEN ReturnErr(r.err) /\ UNCHANGED total_size
           ELSE /\ total_size' = r.total
                /\ cpc' = "spawn"
                /\ UNCHANGED << cres, tx_alive, finished >>
    /\ UNCHANGED << cimpl, source_path, output_path, level, zip, walk, chan, relay,
                    cposition, sent, ccur, disk, prefs, rvars, lvars, gvars, xvars >>

\* Lines 52-59: the relay thread starts.
SpawnRelay ==
    /\ cpc = "spawn"
    /\ relay' = [relay EXCEPT !.pc = "run"]
    /\ cpc' = IF IsDir(disk, Components(source_path)) THEN "dir" ELSE "file"
    /\ UNCHANGED << cimpl, source_path, output_path, level, cres, zip, finished, walk,
                    total_size, chan, tx_alive, cposition, sent, ccur, disk,
                    prefs, rvars, lvars, gvars, xvars >>

\* Lines 61-62 and 81-83: compress_directory starts its walk.
CompressDirectoryBegin ==
    /\ cpc = "dir"
    /\ walk' = WalkDir(disk, source_path)
    /\ cpc' = "walk"
    /\ UNCHANGED << cimpl, source_path, output_path, level, cres, zip, finished,
                    total_size, chan, tx_alive, relay, cposition, sent, ccur,
                    disk, prefs, rvars, lvars, gvars, xvars >>

\* Lines 83-96 and 111-113: one walk entry, up to the choice of the copy.
WalkNext ==
    /\ cpc = "walk" /\ walk # << >> /\ cimpl # "core"
    /\ LET entry   == Head(walk)
           comps   == Components(entry.path)
           file    == Stat(disk, comps).loc
           base    == BasePath(source_path)
           name    == CompString(strip_prefix(comps, base))
           options == FileOptions(level)
       IN  IF entry.err
           THEN ReturnErr("Err(WalkDir)") /\ UNCHANGED << zip, walk, ccur >>
           ELSE IF ~IsPrefixOf(base, comps)
           THEN ReturnErr("Err(StripPrefix)") /\ UNCHANGED << zip, walk, ccur >>
           ELSE IF ~IsFile(disk, comps)
           THEN /\ walk' = Tail(walk)
                /\ UNCHANGED << cpc, cres, tx_alive, finished, zip, ccur >>
           ELSE IF ~StartFileOk(options)
           THEN ReturnErr("Err(Zip)") /\ UNCHANGED << zip, walk, ccur >>
           ELSE /\ zip' = Append(zip, NewEntry(name, options))
                /\ IF ~Readable(disk, file)
                   THEN ReturnErr("Err(Io)") /\ UNCHANGED << walk, ccur >>
                   ELSE /\ walk' = Tail(walk)
                        /\ ccur' = OpenFile(disk, file, "walk")
                        /\ cpc' = IF UsesMmap(FileLen(disk, file))
                                  THEN "mmap" ELSE "read"
                        /\ UNCHANGED << cres, tx_alive, finished >>
    /\ UNCHANGED << cimpl, source_path, output_path, level, total_size, chan, relay,
                    cposition, sent, disk, prefs, rvars, lvars, gvars, xvars >>

\* Line 118: the walk is over, compress_directory returns Ok.
WalkEnd ==
    /\ cpc = "walk" /\ walk = << >>
    /\ cpc' = "drop"
    /\ UNCHANGED << cimpl, source_path, output_path, level, cres, zip, finished, walk,
                    total_size, chan, tx_alive, relay, cposition, sent, ccur,
                    disk, prefs, rvars, lvars, gvars, xvars >>

\* Lines 63-64 and 170-179: compress_file up to the choice of the copy.
CompressFileBegin ==
    /\ cpc = "file" /\ cimpl # "core"
    /\ LET comps   == Components(source_path)
           options == FileOptions(level)
       IN  IF ~StartFileOk(options)
           THEN ReturnErr("Err(Zip)") /\ UNCHANGED << zip, ccur >>
           ELSE /\ zip' = Append(zip, NewEntry(FileName(source_path), options))
                /\ IF ~IsFile(disk, comps)
                      \/ ~Readable(disk, Stat(disk, comps).loc)
                   THEN ReturnErr("Err(Io)") /\ UNCHANGED ccur
                   ELSE LET loc == Stat(disk, comps).loc
                        IN  /\ ccur' = OpenFile(disk, loc, "drop")
                            /\ cpc' = IF UsesMmap(FileLen(disk, loc))
                                      THEN "mmap" ELSE "read"
                            /\ UNCHANGED << cres, tx_alive, finished >>
    /\ UNCHANGED << cimpl, source_path, output_path, level, walk, total_size, chan,
                    relay, cposition, sent, disk, prefs, rvars, lvars, gvars, xvars >>

\* Lines 98-103 (181-185): the mapping succeeds, the file goes out in one write.
MmapOk ==
    /\ cpc = "mmap"
    /\ zip' = ZipWrite(zip, disk[ccur.loc].data)
    /\ Send(ccur.size)
    /\ cpc' = ccur.ret
    /\ ccur' = NoFile
    /\ UNCHANGED << cimpl, source_path, output_path, level, cres, finished, walk,
                    total_size, tx_alive, relay, cposition, disk, prefs, rvars, lvars, gvars, xvars >>

\* Lines 105-108 (187-190): the mapping fails, read_and_write_file takes over.
MmapErr ==
    /\ cpc = "mmap"
    /\ cpc' = "read"
    /\ ccur' = [ccur EXCEPT !.mapfail = TRUE]
    /\ UNCHANGED << cimpl, source_path, output_path, level, cres, zip, finished, walk,
                    total_size, chan, tx_alive, relay, cposition, sent, disk,
                    prefs, rvars, lvars, gvars, xvars >>

\* Lines 143-158: one iteration of the read loop that reads n > 0 bytes.
CompressRead ==
    /\ cpc = "read" /\ ccur.off < ccur.size
    /\ LET full == Min(ccur.buf, ccur.size - ccur.off)
       IN  \E n \in { full } \cup
                    { k \in { full \div 2 } :
                          k >= 1 /\ ccur.short < MaxShortReads } :
              /\ zip' = ZipWrite(zip, Slice(disk[ccur.loc].data, ccur.off,
                                            ccur.off + n))
              /\ Send(n)
              /\ ccur' = [ccur EXCEPT !.off = ccur.off + n,
                                      !.buf = Grow(ccur.buf, n),
                                      !.short = IF n < full THEN @ + 1 ELSE @]
    /\ UNCHANGED << cimpl, source_path, output_path, level, cpc, cres, finished, walk,
                    total_size, tx_alive, relay, cposition, disk, prefs, rvars, lvars, gvars, xvars >>

\* Lines 144-147 and 161: the read that returns 0 ends the copy.
CompressReadEnd ==
    /\ cpc = "read" /\ ccur.off = ccur.size
    /\ cpc' = ccur.ret
    /\ ccur' = NoFile
    /\ UNCHANGED << cimpl, source_path, output_path, level, cres, zip, finished, walk,
                    total_size, chan, tx_alive, relay, cposition, sent, disk,
                    prefs, rvars, lvars, gvars, xvars >>

\* Line 67: drop(tx).
DropTx ==
    /\ cpc = "drop"
    /\ tx_alive' = FALSE
    /\ cpc' = "join"
    /\ UNCHANGED << cimpl, source_path, output_path, level, cres, zip, finished, walk,
                    total_size, chan, relay, cposition, sent, ccur, disk, prefs,
                    rvars, lvars, gvars, xvars >>

\* Line 68: handle.join().unwrap() waits for the relay and panics if it did.
JoinRelay ==
    /\ cpc = "join" /\ relay.pc \in { "done", "panicked" }
    /\ IF relay.pc = "panicked"
       THEN /\ cpc' = "done" /\ cres' = "panic" /\ finished' = TRUE
       ELSE /\ cpc' = "finish" /\ UNCHANGED << cres, finished >>
    /\ UNCHANGED << cimpl, source_path, output_path, level, zip, walk, total_size,
                    chan, tx_alive, relay, cposition, sent, ccur, disk, prefs,
                    rvars, lvars, gvars, xvars >>

\* Lines 70-72: zip.finish() and Ok.
CompressFinish ==
    /\ cpc = "finish"
    /\ finished' = TRUE
    /\ cres' = "ok"
    /\ cpc' = "done"
    /\ UNCHANGED << cimpl, source_path, output_path, level, zip, walk, total_size,
                    chan, tx_alive, relay, cposition, sent, ccur, disk, prefs,
                    rvars, lvars, gvars, xvars >>

\* Lines 54-57: the relay receives a delta.
RelayRecv ==
    /\ relay.pc = "run" /\ chan # << >>
    /\ relay' = [relay EXCEPT !.processed_size = @ + Head(chan)]
    /\ cposition' = relay.processed_size + Head(chan)
    /\ chan' = Tail(chan)
    /\ UNCHANGED << cimpl, source_path, output_path, level, cpc, cres, zip, finished,
                    walk, total_size, tx_alive, sent, ccur, disk, prefs, rvars, lvars, gvars, xvars >>

\* Lines 54 and 58: recv fails once the channel is empty and the sender gone;
\* progress.finish() moves the bar to its length and the thread ends.
RelayFinish ==
    /\ relay.pc = "run" /\ chan = << >> /\ ~tx_alive
    /\ relay' = [relay EXCEPT !.pc = "done"]
    /\ cposition' = total_size
    /\ UNCHANGED << cimpl, source_path, output_path, level, cpc, cres, zip, finished,
                    walk, total_size, chan, tx_alive, sent, ccur, disk, prefs,
                    rvars, lvars, gvars, xvars >>

\* The relay closure panics (the consumer of the deltas fails): the thread
\* ends and its receiver is dropped with whatever the channel held.
RelayPanic ==
    /\ relay.pc = "run" /\ relay.faulty
    /\ relay' = [relay EXCEPT !.pc = "panicked"]
    /\ chan' = << >>
    /\ UNCHANGED << cimpl, source_path, output_path, level, cpc, cres, zip, finished,
                    walk, total_size, tx_alive, cposition, sent, ccur, disk,
                    prefs, rvars, lvars, gvars, xvars >>

(***************************************************************************)
(* main.rs compress: the files are collected first, then added one by one; *)
(* the progress bar counts files and there is no relay.                    *)
(***************************************************************************)
\* main.rs:220-233: the level is clamped, 0 selects Stored, mode 0o755.
MainOptions(l) ==
    LET compression_level == IF l.hi = 1 \/ l.lo > 9 THEN 9 ELSE l.lo
    IN  [method |-> IF compression_level = 0 THEN "Stored" ELSE "Deflated",
         zlevel |-> compression_level, mode |-> 493]

\* main.rs:246-255: the walk with its errors filtered out, files only.
RECURSIVE MainWalkFiles(_, _, _)
MainWalkFiles(fs, entries, base) ==
    IF entries = << >> THEN << >>
    ELSE LET e     == entries[1]
             comps == Components(e.path)
         IN  (IF ~e.err /\ IsFile(fs, comps)
              THEN << [path |-> e.path, loc |-> Stat(fs, comps).loc,
                       prefixed |-> IsPrefixOf(base, comps),
                       name |-> CompString(strip_prefix(comps, base))] >>
              ELSE << >>)
             \o MainWalkFiles(fs, Tail(entries), base)

\* main.rs:237-257: files_to_compress.
MainFiles(fs, src) ==
    IF IsFile(fs, Components(src))
    THEN << [path |-> src, loc |-> Stat(fs, Components(src)).loc,
             prefixed |-> TRUE, name |-> FileName(src)] >>
    ELSE MainWalkFiles(fs, WalkDir(fs, src), BasePath(src))

\* main.rs:219-233: the options and the output file.
MainCompressBegin ==
    /\ cpc = "start" /\ cimpl = "main"
    /\ LET c == FileCreate(disk, Components(output_path))
       IN  /\ disk' = c.fs
           /\ IF c.err # "ok"
              THEN cpc' = "done" /\ cres' = "Err(anyhow)"
              ELSE cpc' = "collect" /\ UNCHANGED cres
    /\ UNCHANGED << cimpl, source_path, output_path, level, zip, finished,
                    walk, total_size, chan, tx_alive, relay, cposition, sent,
                    ccur, prefs, rvars, lvars, gvars, xvars >>

\* main.rs:235-265: files_to_compress and the progress bar over their count.
MainCollect ==
    /\ cpc = "collect"
    /\ LET src   == Components(source_path)
           files == MainFiles(disk, source_path)
       IN  IF ~IsFile(disk, src) /\ ~IsDir(disk, src)
           THEN /\ cpc' = "done" /\ cres' = "Err(anyhow)" /\ finished' = TRUE
                /\ UNCHANGED << walk, total_size >>
           ELSE IF \E i \in 1..Len(files) : ~files[i].prefixed
           THEN /\ cpc' = "done" /\ cres' = "panic" /\ finished' = TRUE
                /\ UNCHANGED << walk, total_size >>
           ELSE /\ walk' = files
                /\ total_size' = Len(files)
                /\ cpc' = "add"
                /\ UNCHANGED << cres, finished >>
    /\ UNCHANGED << cimpl, source_path, output_path, level, zip, chan,
                    tx_alive, relay, cposition, sent, ccur, disk, prefs,
                    rvars, lvars, gvars, xvars >>

\* main.rs:267-279: one file is added whole.  Releases of the container
\* writer differ on Stored with a level given: some refuse it.
MainAddFile ==
    /\ cpc = "add" /\ walk # << >>
    /\ LET f       == Head(walk)
           options == MainOptions(level)
       IN  \E refused \in IF options.method = "Stored" THEN BOOLEAN
                          ELSE { FALSE } :
              IF ~IsFileAt(disk, f.loc)
              THEN /\ walk' = Tail(walk)
                   /\ cposition' = cposition + 1
                   /\ UNCHANGED << cpc, cres, finished, zip >>
              ELSE IF refused \/ ~StartFileOk(options)
              THEN /\ cpc' = "done" /\ cres' = "Err(anyhow)"
                   /\ finished' = TRUE
                   /\ UNCHANGED << walk, cposition, zip >>
              ELSE IF ~Readable(disk, f.loc)
              THEN /\ zip' = Append(zip, NewEntry(f.name, options))
                   /\ cpc' = "done" /\ cres' = "Err(anyhow)"
                   /\ finished' = TRUE
                   /\ UNCHANGED << walk, cposition >>
              ELSE /\ zip' = ZipWrite(Append(zip, NewEntry(f.name, options)),
                                      disk[f.loc].data)
                   /\ walk' = Tail(walk)
                   /\ cposition' = cposition + 1
                   /\ UNCHANGED << cpc, cres, finished >>
    /\ UNCHANGED << cimpl, source_path, output_path, level, total_size, chan,
                    tx_alive, relay, sent, ccur, disk, prefs, rvars, lvars, gvars, xvars >>

\* main.rs:281-287: zip.finish(), the bar finishes, Ok.
MainCompressFinish ==
    /\ cpc = "add" /\ walk = << >>
    /\ finished' = TRUE
    /\ cposition' = total_size
    /\ cres' = "ok"
    /\ cpc' = "done"
    /\ UNCHANGED << cimpl, source_path, output_path, level, zip, walk,
                    total_size, chan, tx_alive, relay, sent, ccur, disk, prefs,
                    rvars, lvars, gvars, xvars >>

CompressNext ==
    \/ MainCompressBegin
    \/ MainCollect
    \/ MainAddFile
    \/ MainCompressFinish
    \/ CompressBegin
    \/ CompressSizing
    \/ SpawnRelay
    \/ CompressDirectoryBegin
    \/ WalkNext
    \/ WalkEnd
    \/ CompressFileBegin
    \/ MmapOk
    \/ MmapErr
    \/ CompressRead
    \/ CompressReadEnd
    \/ DropTx
    \/ JoinRelay
    \/ CompressFinish
    \/ RelayRecv
    \/ RelayFinish
    \/ RelayPanic


(***************************************************************************)
(* The inputs of a compress job.                                           *)
(***************************************************************************)
ReaderIdle ==
    /\ archive = << >> /\ overwrite = TRUE /\ eimpl = "extract"
    /\ epc = "idle" /\ eidx = 1 /\ eres = "none" /\ position = 0
    /\ etotal = 0 /\ touched = { } /\ ecur = NoCopy /\ output_dir = << >>

SrcFile(id, size, mode) ==
    [kind |-> "file", data |-> Bytes(id, size), mode |-> mode]

LinkNode(loc) == [kind |-> "link", data |-> << >>, mode |-> 511, to |-> loc]

BigSize == 100 * MiB + 1

\* What is found at the source path "d".
SmallSources ==
    { \* a directory with a file, a subdirectory and a file in it
      (At(<< << "d" >> >>) :> DirNode)
        @@ (At(<< << "d" >>, << "a" >> >>) :> SrcFile(1, 3, 420))
        @@ (At(<< << "d" >>, << "s" >> >>) :> DirNode)
        @@ (At(<< << "d" >>, << "s" >>, << "b" >> >>) :> SrcFile(2, 40 * KiB, 384)),
      \* a directory with a file that cannot be opened
      (At(<< << "d" >> >>) :> DirNode)
        @@ (At(<< << "d" >>, << "a" >> >>) :> SrcFile(1, 3, 420))
        @@ (At(<< << "d" >>, << "b" >> >>) :> SrcFile(2, 3, 0)),
      \* a directory with a subdirectory that cannot be read
      (At(<< << "d" >> >>) :> DirNode)
        @@ (At(<< << "d" >>, << "a" >> >>) :> SrcFile(1, 3, 420))
        @@ (At(<< << "d" >>, << "s" >> >>) :> [DirNode EXCEPT !.mode = 0]),
      \* a directory with a file and a symbolic link to it
      (At(<< << "d" >> >>) :> DirNode)
        @@ (At(<< << "d" >>, << "a" >> >>) :> SrcFile(1, 3, 420))
        @@ (At(<< << "d" >>, << "l" >> >>)
              :> LinkNode(At(<< << "d" >>, << "a" >> >>))),
      \* a single file
      (At(<< << "d" >> >>) :> SrcFile(1, 3, 420)),
      \* nothing
      << >> }

BigSources ==
    { (At(<< << "d" >> >>) :> SrcFile(1, BigSize, 420)),
      (At(<< << "d" >> >>) :> DirNode)
        @@ (At(<< << "d" >>, << "a" >> >>) :> SrcFile(1, BigSize, 420)) }

Levels == { U32(0, 0), U32(0, 6), U32(0, 9), U32(0, 10), U32(1, 5) }

\* A tree met under several names: by a relative path, through ".", "..",
\* a path with "..", one with a trailing separator, an absolute path, and as
\* a single file.
PathTree ==
    (At(<< << "d" >> >>) :> DirNode)
      @@ (At(<< << "d" >>, << "a" >> >>) :> SrcFile(1, 3, 420))
      @@ (At(<< << "d" >>, << "s" >> >>) :> DirNode)
      @@ (At(<< << "d" >>, << "s" >>, << "b" >> >>) :> SrcFile(2, 5, 420))
      @@ ([root |-> FALSE, up |-> 1, down |-> << << "a" >> >>]
            :> SrcFile(3, 4, 420))
      @@ ([root |-> TRUE, up |-> 0, down |-> << << "b" >> >>]
            :> SrcFile(4, 4, 420))

SourcePaths ==
    { << "d" >>, << ".", "/", "d" >>, << "d", "/", "s" >>, << "d", "/" >>,
      << "." >>, << ".", "." >>, << "d", "/", ".", ".", "/", "d" >>,
      << "d", "/", "s", "/", ".", "." >>, << "/" >>,
      << "d", "/", "a" >>, << "/", "b" >> }

CompressInit ==
    /\ \/ /\ disk \in SmallSources
          /\ source_path = << "d" >>
          /\ cimpl \in { "compress", "main" }
          /\ level \in Levels
          /\ relay \in { [pc |-> "none", processed_size |-> 0, faulty |-> f] :
                           f \in BOOLEAN }
       \/ /\ disk \in BigSources
          /\ source_path = << "d" >>
          /\ cimpl = "compress"
          /\ level = U32(0, 6)
          /\ relay = [pc |-> "none", processed_size |-> 0, faulty |-> FALSE]
       \/ /\ disk = PathTree
          /\ source_path \in SourcePaths
          /\ cimpl \in { "compress", "main" }
          /\ level = U32(0, 6)
          /\ relay = [pc |-> "none", processed_size |-> 0, faulty |-> FALSE]
    /\ prefs = disk
    /\ output_path = << "z" >>
    /\ cpc = "start"
    /\ cres = "none"
    /\ zip = << >>
    /\ finished = FALSE
    /\ walk = << >>
    /\ total_size = 0
    /\ chan = << >>
    /\ tx_alive = FALSE
    /\ cposition = 0
    /\ sent = 0
    /\ ccur = NoFile
    /\ ReaderIdle
    /\ ListIdle
    /\ GuiIdle

SpecCompress == CompressInit /\ [][CompressNext]_vars


(***************************************************************************)
(* The listing query: list.rs list_zip_contents, core.rs                   *)
(* list_zip_contents, main.rs list_contents.  The ratio is computed in     *)
(* f64; a double is held here as the exact binary number it is: a sign,   *)
(* an integer part and the bits after the point, rounded to 53             *)
(* significant bits, ties to even, after every operation.                  *)
(***************************************************************************)
MantissaBits == 53

RECURSIVE BitLen(_)
BitLen(n) == IF n = 0 THEN 0 ELSE 1 + BitLen(n \div 2)

LeadingZeros(bits) ==
    IF \A i \in 1..Len(bits) : bits[i] = 0 THEN Len(bits)
    ELSE (CHOOSE i \in 1..Len(bits) :
              bits[i] = 1 /\ \A j \in 1..(i - 1) : bits[j] = 0) - 1

\* How many bits after the point a double keeps for this magnitude.
KeptBits(int, lz) ==
    IF int > 0 THEN MantissaBits - BitLen(int) ELSE lz + MantissaBits

\* One unit in the last place more: the carry runs up to the last 0.
AddUlp(int, frac) ==
    IF \A i \in 1..Len(frac) : frac[i] = 1
    THEN [int |-> int + 1, frac |-> [i \in 1..Len(frac) |-> 0]]
    ELSE LET last == CHOOSE i \in 1..Len(frac) :
                         frac[i] = 0 /\ \A j \in (i + 1)..Len(frac) : frac[j] = 1
         IN  [int |-> int,
              frac |-> [i \in 1..Len(frac) |->
                           IF i < last THEN frac[i]
                           ELSE IF i = last THEN 1 ELSE 0]]

\* Round to nearest, ties to even; sticky tells of bits beyond frac.
RoundNearestEven(int, frac, sticky) ==
    LET keep == KeptBits(int, LeadingZeros(frac))
    IN  IF Len(frac) <= keep THEN [int |-> int, frac |-> frac]
        ELSE LET head  == SubSeq(frac, 1, keep)
                 guard == frac[keep + 1]
                 rest  == sticky \/ \E i \in (keep + 2)..Len(frac) : frac[i] = 1
                 lsb   == IF keep = 0 THEN int % 2 ELSE frac[keep]
             IN  IF guard = 1 /\ (rest \/ lsb = 1)
                 THEN AddUlp(int, head)
                 ELSE [int |-> int, frac |-> head]

\* a * b mod u and 2^i mod u, by halving, so that nothing passes 2^31.
RECURSIVE MulMod(_, _, _)
MulMod(a, b, u) ==
    IF b = 0 THEN 0
    ELSE (((2 * MulMod(a, b \div 2, u)) % u) + ((b % 2) * (a % u))) % u

RECURSIVE Pow2Mod(_, _)
Pow2Mod(i, u) ==
    IF i = 0 THEN 1 % u
    ELSE LET h == Pow2Mod(i \div 2, u)
         IN  MulMod(MulMod(h, h, u), IF i % 2 = 1 THEN 2 ELSE 1, u)

\* Long division of r by u, r < u: what is left after n bits, the first n
\* bits, and the zeros before the first one.
DivRem(r, u, n) == MulMod(Pow2Mod(n, u), r, u)
DivBits(r, u, n) == [i \in 1..n |-> (2 * DivRem(r, u, i - 1)) \div u]

RECURSIVE DivLeadingZeros(_, _)
DivLeadingZeros(r, u) ==
    IF r = 0 \/ 2 * r >= u THEN 0 ELSE 1 + DivLeadingZeros(2 * r, u)

\* c as f64 / u as f64, for u > 0
F64Div(c, u) ==
    LET whole == c \div u
        left  == c % u
        bits  == KeptBits(whole, DivLeadingZeros(left, u)) + 1
        q     == IF left = 0 THEN [int |-> whole, frac |-> << >>]
                 ELSE RoundNearestEven(whole, DivBits(left, u, bits),
                                       DivRem(left, u, bits) # 0)
    IN  [neg |-> FALSE, int |-> q.int, frac |-> q.frac]

\* 1.0 - x, for x >= 0
F64OneMinus(x) ==
    IF \A i \in 1..Len(x.frac) : x.frac[i] = 0
    THEN [neg |-> x.int > 1, int |-> IF x.int = 0 THEN 1 ELSE x.int - 1,
          frac |-> << >>]
    ELSE IF x.int >= 1
    THEN [neg |-> TRUE, int |-> x.int - 1, frac |-> x.frac]
    ELSE LET inv == [i \in 1..Len(x.frac) |-> 1 - x.frac[i]]
             d   == AddUlp(0, inv)
             q   == RoundNearestEven(d.int, d.frac, FALSE)
         IN  [neg |-> FALSE, int |-> q.int, frac |-> q.frac]

\* The bits after the point times k, and what carries over the point; the
\* product is taken 20 bits at a time.
RECURSIVE BitsValue(_)
BitsValue(bits) ==
    IF bits = << >> THEN 0
    ELSE 2 * BitsValue(SubSeq(bits, 1, Len(bits) - 1)) + bits[Len(bits)]

Limb(frac, j) ==
    BitsValue([i \in 1..20 |->
                  IF 20 * (j - 1) + i <= Len(frac)
                  THEN frac[20 * (j - 1) + i] ELSE 0])

RECURSIVE MulLimbs(_, _, _)
MulLimbs(frac, j, k) ==
    IF 20 * (j - 1) >= Len(frac) THEN [carry |-> 0, limbs |-> << >>]
    ELSE LET rest == MulLimbs(frac, j + 1, k)
             t    == Limb(frac, j) * k + rest.carry
         IN  [carry |-> t \div (2 ^ 20),
              limbs |-> << t % (2 ^ 20) >> \o rest.limbs]

MulFrac(frac, k) ==
    LET m == MulLimbs(frac, 1, k)
    IN  [carry |-> m.carry,
         frac  |-> [i \in 1..(20 * Len(m.limbs)) |->
                       (m.limbs[((i - 1) \div 20) + 1]
                            \div (2 ^ (19 - ((i - 1) % 20)))) % 2]]

\* 100.0 * x
F64Times100(x) ==
    LET m == MulFrac(x.frac, 100)
        q == RoundNearestEven(100 * x.int + m.carry, m.frac, FALSE)
    IN  [neg |-> x.neg, int |-> q.int, frac |-> q.frac]

\* `as u32`: toward zero, and 0 for what is below zero.
AsU32(x) == IF x.neg THEN 0 ELSE x.int

\* list.rs:66-70 (and 43-47), core.rs:204-208
RatioSaved(size, compressed_size) ==
    IF size > 0
    THEN AsU32(F64Times100(F64OneMinus(F64Div(compressed_size, size))))
    ELSE 0

\* main.rs:379-383
RatioKept(size, compressed_size) ==
    IF size > 0 THEN AsU32(F64Times100(F64Div(compressed_size, size))) ELSE 0

Ratio(impl, size, compressed_size) ==
    IF impl = "main" THEN RatioKept(size, compressed_size)
    ELSE RatioSaved(size, compressed_size)

RECURSIVE SumField(_, _)
SumField(entries, compressed) ==
    IF entries = << >> THEN 0
    ELSE (IF compressed THEN entries[1].compressed_size ELSE entries[1].size)
         + SumField(Tail(entries), compressed)

\* list.rs:25-47: the totals and the overall ratio.
ListTotals ==
    /\ lpc = "totals"
    /\ ltotals' = [total_size |-> SumField(larchive, FALSE),
                   total_compressed_size |-> SumField(larchive, TRUE),
                   overall_ratio |-> RatioSaved(SumField(larchive, FALSE),
                                                SumField(larchive, TRUE))]
    /\ lpc' = "rows"
    /\ UNCHANGED << limpl, larchive, lidx, lrows >>
    /\ UNCHANGED << evars, cvars, gvars, xvars >>

\* list.rs:64-70, core.rs:202-208, main.rs:377-383: the row of one entry.
ListRow ==
    /\ lpc = "rows" /\ lidx <= Len(larchive)
    /\ lrows' = Append(lrows, Ratio(limpl, larchive[lidx].size,
                                    larchive[lidx].compressed_size))
    /\ lidx' = lidx + 1
    /\ UNCHANGED << limpl, larchive, lpc, ltotals >>
    /\ UNCHANGED << evars, cvars, gvars, xvars >>

ListEnd ==
    /\ lpc = "rows" /\ lidx > Len(larchive)
    /\ lpc' = "done"
    /\ UNCHANGED << limpl, larchive, lidx, ltotals, lrows >>
    /\ UNCHANGED << evars, cvars, gvars, xvars >>

ListNext ==
    \/ ListTotals
    \/ ListRow
    \/ ListEnd

MaxListed == 2

Sizes == { 0, 3, 9, 10, 40 * KiB }

ListedEntry(size, compressed_size) ==
    [name |-> << "a" >>, size |-> size, compressed_size |-> compressed_size]

ListedArchives ==
    UNION { [1..n -> { ListedEntry(u, c) : u \in Sizes, c \in Sizes }] :
              n \in 1..MaxListed }

ListInit ==
    /\ limpl \in { "list", "core", "main" }
    /\ larchive \in ListedArchives
    /\ lpc = IF limpl = "list" THEN "totals" ELSE "rows"
    /\ lidx = 1
    /\ ltotals = NoTotals
    /\ lrows = << >>
    /\ ReaderIdle /\ WriterIdle /\ GuiIdle
    /\ disk = << >> /\ prefs = << >>

SpecList == ListInit /\ [][ListNext]_vars

(***************************************************************************)
(* Properties of the archive writer.                                       *)
(***************************************************************************)
BigFiles ==
    { loc \in DOMAIN prefs :
        IsFileAt(prefs, loc) /\ UsesMmap(FileLen(prefs, loc)) }

\* C5: at level 0 every entry is written with the store method, and at a
\* level in 1..9 every entry is written with the deflate method.
LevelZeroStores ==
    \A i \in 1..Len(zip) :
        /\ level = U32(0, 0) => zip[i].method = "Stored"
        /\ (level.hi = 0 /\ level.lo >= 1 /\ level.lo <= 9) =>
               zip[i].method = "Deflated"

\* C6: the level handed to the container writer is min(level, 9) for every
\* u32 level, and the job does not fail because of the level.
LevelClampedToNine ==
    /\ \A i \in 1..Len(zip) :
           zip[i].zlevel = IF level.hi = 0 THEN Min(level.lo, 9) ELSE 9
    /\ cres # "Err(Zip)"

\* C8: for a source file over 100 MiB a failed mapping is not fatal (the
\* chunked copy takes over and the job goes on), and the job ends with the
\* same entry bytes and the same progress total as when the mapping succeeds:
\* the bytes of the file, and its size.
MmapFallbackWritesSameBytes ==
    BigFiles # { } =>
        /\ (cpc = "read" /\ UsesMmap(ccur.size)) =>
               /\ ccur.mapfail /\ cres = "none"
               /\ zip[Len(zip)].data =
                      Slice(disk[ccur.loc].data, 0, ccur.off)
               /\ sent = ccur.off
        /\ cpc = "done" =>
               /\ cres = "ok" /\ finished
               /\ \A loc \in BigFiles :
                      /\ Len(zip) = 1 /\ zip[1].data = prefs[loc].data
                      /\ sent = FileLen(prefs, loc)
                      /\ relay.processed_size = sent /\ cposition = sent

MmapFallbackWritesSameBytesWitness ==
    /\ BigFiles # { }
    /\ cpc = "read" /\ ccur.mapfail /\ ccur.off = ccur.size
    /\ ccur.size = BigSize
    /\ zip[Len(zip)].data = prefs[ccur.loc].data

\* C9: a relay that panics while compress runs does not make compress panic.
RelayFailureNeverFailsJob ==
    (cpc = "done" /\ relay.pc = "panicked") => cres # "panic"

\* C10: when compress returns, with success or with an error, the relay it
\* started has consumed every delta sent and has terminated.
ReturnsAfterJoiningRelay ==
    (cpc = "done" /\ relay.pc # "none" /\ ~relay.faulty) =>
        /\ relay.pc = "done"
        /\ chan = << >>
        /\ relay.processed_size = sent


\* C7: every row of every listing shows 100 * (1 - c/u) rounded down, and 0
\* for u = 0, whatever u and c are; list.rs shows the same of the totals.
ListingRatioIsSavedShare ==
    LET RoundedDown(u, c) == IF u > 0 THEN (100 * (u - c)) \div u ELSE 0
    IN  /\ \A i \in 1..Len(lrows) :
               lrows[i] = RoundedDown(larchive[i].size,
                                      larchive[i].compressed_size)
        /\ (limpl = "list" /\ lpc \in { "rows", "done" }) =>
               ltotals.overall_ratio =
                   RoundedDown(ltotals.total_size,
                               ltotals.total_compressed_size)

(***************************************************************************)
(* compress.rs compress followed by extract.rs extract of what it wrote.   *)
(***************************************************************************)
\* extract.rs:27-28: the reader opens the container the writer finished.
RECURSIVE EntriesOf(_)
EntriesOf(z) ==
    IF z = << >> THEN << >>
    ELSE << [name |-> z[1].name, size |-> DataLen(z[1].data),
             data |-> z[1].data, mode |-> z[1].mode, bad |-> FALSE,
             corrupt |-> FALSE] >>
         \o EntriesOf(Tail(z))

OpenArchive ==
    /\ cpc = "done" /\ cres = "ok" /\ epc = "idle"
    /\ IsFile(disk, Components(output_path))
    /\ archive' = EntriesOf(zip)
    /\ epc' = "init"
    /\ output_dir' = << "o" >>
    /\ UNCHANGED << overwrite, eimpl, eidx, eres, disk, prefs, position, etotal,
                    touched, ecur, cvars, lvars, gvars, xvars >>

RoundTripSources ==
    { \* files, one of them empty, and a subdirectory with a file
      (At(<< << "d" >> >>) :> DirNode)
        @@ (At(<< << "d" >>, << "a" >> >>) :> SrcFile(1, 3, 420))
        @@ (At(<< << "d" >>, << "b" >> >>) :> SrcFile(2, 0, 420))
        @@ (At(<< << "d" >>, << "s" >> >>) :> DirNode)
        @@ (At(<< << "d" >>, << "s" >>, << "b" >> >>) :> SrcFile(3, 40 * KiB, 384)),
      \* a file and an empty subdirectory
      (At(<< << "d" >> >>) :> DirNode)
        @@ (At(<< << "d" >>, << "a" >> >>) :> SrcFile(1, 3, 420))
        @@ (At(<< << "d" >>, << "s" >> >>) :> DirNode),
      \* a file with a backslash in its name
      (At(<< << "d" >> >>) :> DirNode)
        @@ (At(<< << "d" >>, << "a", "\\", "b" >> >>) :> SrcFile(1, 3, 420)),
      \* an empty directory
      (At(<< << "d" >> >>) :> DirNode),
      \* a single file
      (At(<< << "d" >> >>) :> SrcFile(1, 3, 420)),
      \* a single file that takes the copy buffer to its ceiling
      (At(<< << "d" >> >>) :> SrcFile(1, 5 * MiB, 420)) }

RoundTripInit ==
    /\ \E src \in RoundTripSources :
           disk \in { src, (At(<< << "o" >> >>) :> DirNode) @@ src }
    /\ cimpl = "compress"
    /\ level \in { U32(0, 0), U32(0, 6) }
    /\ relay = [pc |-> "none", processed_size |-> 0, faulty |-> FALSE]
    /\ prefs = disk
    /\ source_path = << "d" >>
    /\ output_path = << "z" >>
    /\ cpc = "start"
    /\ cres = "none"
    /\ zip = << >>
    /\ finished = FALSE
    /\ walk = << >>
    /\ total_size = 0
    /\ chan = << >>
    /\ tx_alive = FALSE
    /\ cposition = 0
    /\ sent = 0
    /\ ccur = NoFile
    /\ ReaderIdle
    /\ ListIdle
    /\ GuiIdle

RoundTripNext ==
    \/ CompressBegin
    \/ CompressSizing
    \/ SpawnRelay
    \/ CompressDirectoryBegin
    \/ WalkNext
    \/ WalkEnd
    \/ CompressFileBegin
    \/ CompressRead
    \/ CompressReadEnd
    \/ DropTx
    \/ JoinRelay
    \/ CompressFinish
    \/ RelayRecv
    \/ RelayFinish
    \/ OpenArchive
    \/ ExtractBegin
    \/ ExtractEntry
    \/ ExtractRead
    \/ ExtractEndFile
    \/ ExtractFinish

SpecRoundTrip == RoundTripInit /\ [][RoundTripNext]_vars

\* The tree at the source path, and where the round trip should put it.
Under(loc, top) ==
    /\ loc.root = top.root /\ loc.up = top.up
    /\ Len(loc.down) >= Len(top.down)
    /\ SubSeq(loc.down, 1, Len(top.down)) = top.down
SourceRoot == Stat(prefs, Components(source_path)).loc
SourceLocs == { loc \in DOMAIN prefs : Under(loc, SourceRoot) }
Image(loc) == [loc EXCEPT !.down = << << "o" >> >> \o loc.down]
ExtractedLocs ==
    { loc \in DOMAIN disk :
        Under(loc, At(<< << "o" >> >>)) /\ loc # At(<< << "o" >> >>) }
SameNode(src, out) ==
    /\ out \in DOMAIN disk
    /\ disk[out].kind = prefs[src].kind
    /\ prefs[src].kind = "file" => disk[out].data = prefs[src].data
HoldsAFile(src) ==
    \E f \in SourceLocs : Under(f, src) /\ prefs[f].kind = "file"
NoBackslash ==
    \A loc \in SourceLocs :
        \A i \in 1..Len(loc.down) :
            \A j \in 1..Len(loc.down[i]) : loc.down[i][j] # "\\"

\* C1 (as stated): after compress and extract into an empty directory, the
\* extracted paths are exactly the paths of the tree, with the same bytes.
RoundTripReproducesTree ==
    (epc = "done" /\ eres = "ok") =>
        /\ \A src \in SourceLocs : SameNode(src, Image(src))
        /\ \A out \in ExtractedLocs : \E src \in SourceLocs : Image(src) = out

\* C1 (amended): for a tree of directories and regular files whose names hold
\* no backslash, after compress and extract into an empty directory every file
\* of the tree is at its relative path with the same bytes, every directory
\* that holds a file, at any depth, is there, and nothing else is: a directory
\* that holds no file is not reproduced.
RoundTripReproducesFiles ==
    (epc = "done" /\ eres = "ok" /\ NoBackslash) =>
        /\ \A src \in SourceLocs : HoldsAFile(src) => SameNode(src, Image(src))
        /\ \A out \in ExtractedLocs :
               \E src \in SourceLocs : Image(src) = out /\ HoldsAFile(src)

RoundTripReproducesFilesWitness ==
    /\ epc = "done" /\ eres = "ok" /\ NoBackslash
    /\ At(<< << "d" >>, << "s" >>, << "b" >> >>) \in SourceLocs
    /\ At(<< << "o" >>, << "d" >>, << "s" >>, << "b" >> >>) \in DOMAIN disk
    /\ disk[At(<< << "o" >>, << "d" >>, << "s" >>, << "b" >> >>)].data
           = Bytes(3, 40 * KiB)
    /\ At(<< << "o" >>, << "d" >>, << "b" >> >>) \in DOMAIN disk


(***************************************************************************)
(* Failures of the jobs.                                                   *)
(***************************************************************************)
UnreadableDirs ==
    { loc \in SourceLocs : prefs[loc].kind = "dir" /\ prefs[loc].mode = 0 }

\* C11: when a directory under the source cannot be read, no compress returns
\* success: the job ends with an error.
UnreadableDirectoryAborts ==
    (cpc = "done" /\ UnreadableDirs # { }) => cres \in Errors


\* Where the reader puts entry e.
OutPath(e) ==
    Components(Join(output_dir, IF eimpl = "main" THEN e.name
                                ELSE mangled_name(e.name)))

EntryNamesRelativeToParent ==
    \A i \in 1..Len(zip) :
        LET n   == Components(zip[i].name)
            src == Components(source_path)
        IN  IF IsDir(prefs, src)
            THEN /\ Len(n) >= 2
                 /\ n[1] = src[Len(src)]
                 /\ IsFile(disk, BasePath(source_path) \o n)
                 /\ Stat(disk, BasePath(source_path) \o n).loc
                        \in SourceLocs \cup { Stat(disk, Components(output_path)).loc }
            ELSE zip[i].name = src[Len(src)].name

EntryNamesRelativeToParentWitness ==
    /\ cres = "ok" /\ cimpl = "compress"
    /\ source_path = << "d", "/", "s" >>
    /\ Len(zip) = 1 /\ zip[1].name = << "s", "/", "b" >>
    /\ zip[1].data = Bytes(2, 5)

\* C14: every entry name is a normalized relative path, with no leading "/"
\* and no ".." segment, whatever the source path is.
EntryNamesAreNormalizedRelative ==
    \A i \in 1..Len(zip) :
        /\ zip[i].name # << >>
        /\ zip[i].name[1] # "/"
        /\ LET segs == SplitOn(zip[i].name, "/")
           IN  \A k \in 1..Len(segs) : segs[k] # << ".", "." >>


\* C15: the sizing pass and the writing pass take the same files, so that the
\* bytes counted while writing never exceed the total of the sizing pass, and
\* equal it when the job succeeds.
ProcessedNeverExceedsTotal ==
    cimpl = "compress" =>
        /\ sent <= total_size
        /\ relay.processed_size <= total_size
        /\ cres = "ok" => sent = total_size


(***************************************************************************)
(* Progress.                                                               *)
(***************************************************************************)
\* C16: the progress state is the relay's alone: in compress.rs and in
\* extract.rs the worker only sends deltas, every change of the progress is a
\* step of the relay, and the bytes processed never decrease.
ProgressOwnedByRelay ==
    [][ /\ (cimpl = "compress" /\ cposition' # cposition)
            => (RelayRecv \/ RelayFinish)
        /\ (eimpl = "extract" /\ position' # position)
            => (RelayRecv \/ RelayFinish)
        /\ relay.processed_size' >= relay.processed_size
        /\ position' >= position ]_vars


(***************************************************************************)
(* Permissions of the extracted files.                                     *)
(***************************************************************************)
\* C17: a file entry written by extract has, afterwards, the Unix permission
\* bits the container records for it; when the container records none, the
\* file keeps the permissions it was created (or found) with.
ExtractRestoresPermissions ==
    (eres = "ok" /\ overwrite) =>
        \A k \in 1..Len(archive) :
            LET e   == archive[k]
                loc == Stat(disk, OutPath(e)).loc
            IN  ( /\ ~EndsWithSlash(e.name)
                  /\ ~(eimpl = "main" /\ ~enclosed_name_is_some(e.name))
                  /\ IsFileAt(disk, loc)
                  /\ \A j \in 1..Len(archive) :
                         j # k => Stat(disk, OutPath(archive[j])).loc # loc )
                => disk[loc].mode =
                       IF e.mode >= 0 THEN e.mode
                       ELSE IF loc \in DOMAIN prefs THEN prefs[loc].mode
                       ELSE NewFileNode.mode


(***************************************************************************)
(* The value a failed job returns.                                         *)
(***************************************************************************)
\* What a ZipError holds: Io, Zip and StripPrefix wrap the error of the
\* library alone (std::io::Error, zip::result::ZipError and StripPrefixError
\* name no path); a walkdir::Error names the path it failed at.
CarriesPath(err) == err = "Err(WalkDir)"

\* C18: the value a failed job of compress.rs returns is the first error met
\* and names the path that was being processed.
FailureIdentifiesPath ==
    (cimpl = "compress" /\ cres \in Errors) => CarriesPath(cres)


(***************************************************************************)
(* The window: ZipToolApp of gui.rs and of main.rs.  A job is a worker     *)
(* thread with the sender of its own channel; the window holds the         *)
(* receiver of the last job it started.  What the worker computes is       *)
(* reduced to how it ends: Ok, Err, or a panic (compress.rs:68,            *)
(* main.rs:241 and 249).                                                   *)
(***************************************************************************)
MaxJobs == 2

Operations == { "Compress", "Extract", "List" }

NewJob(op) == [op |-> op, state |-> "running", chan |-> << >>, rx |-> TRUE,
               got |-> 0]

\* update, first part (gui.rs:70-76, main.rs:465-476): the non-blocking poll
\* of the receiver held.  gui.rs shows every message as Done; main.rs shows a
\* message that holds the word for failure as Error.
Poll ==
    IF result_receiver # 0 /\ jobs[result_receiver].chan # << >>
    THEN [state |-> IF gimpl = "main"
                       /\ Head(jobs[result_receiver].chan) = "Err"
                    THEN "Error" ELSE "Done",
          receiver |-> 0,
          jobs |-> [jobs EXCEPT ![result_receiver].chan = Tail(@),
                                ![result_receiver].rx = FALSE,
                                ![result_receiver].got = @ + 1]]
    ELSE [state |-> operation_state, receiver |-> result_receiver,
          jobs |-> jobs]

\* The paths the operation needs before a job is spawned (gui.rs:278, 301,
\* 324; main.rs:576-580).
PathsChosen ==
    IF gimpl = "gui"
    THEN IF operation = "Compress" THEN gui_source /\ gui_output
         ELSE gui_source
    ELSE IF operation = "List" THEN gui_source
         ELSE gui_source /\ gui_output

\* Whether the frame offers the button that calls execute_operation:
\* gui.rs:189-193 has it in the Idle state only; main.rs:576-584 enables it
\* whenever the paths are chosen.
ExecuteOffered(state) ==
    IF gimpl = "gui" THEN state = "Idle" ELSE PathsChosen

\* A frame in which no widget that matters is used.
GuiFrame ==
    /\ operation_state' = Poll.state
    /\ result_receiver' = Poll.receiver
    /\ jobs' = Poll.jobs
    /\ UNCHANGED << gimpl, operation, gui_source, gui_output >>
    /\ UNCHANGED << evars, cvars, lvars, xvars >>

\* A frame in which another operation is selected (gui.rs:103-107).
GuiSelectOperation ==
    /\ \E op \in Operations \ { operation } : operation' = op
    /\ operation_state' = Poll.state
    /\ result_receiver' = Poll.receiver
    /\ jobs' = Poll.jobs
    /\ UNCHANGED << gimpl, gui_source, gui_output >>
    /\ UNCHANGED << evars, cvars, lvars, xvars >>

\* A frame in which a source is picked (gui.rs:213-248, main.rs:620-653):
\* gui.rs proposes an output for Compress when none is chosen, main.rs
\* always proposes one.
GuiSelectSource ==
    /\ gui_source' = TRUE
    /\ gui_output' = IF gimpl = "main" \/ operation = "Compress"
                     THEN TRUE ELSE gui_output
    /\ operation_state' = Poll.state
    /\ result_receiver' = Poll.receiver
    /\ jobs' = Poll.jobs
    /\ UNCHANGED << gimpl, operation >>
    /\ UNCHANGED << evars, cvars, lvars, xvars >>

\* A frame in which an output is picked (gui.rs:250-270, main.rs:655-680).
GuiSelectOutput ==
    /\ operation # "List"
    /\ gui_output' = TRUE
    /\ operation_state' = Poll.state
    /\ result_receiver' = Poll.receiver
    /\ jobs' = Poll.jobs
    /\ UNCHANGED << gimpl, operation, gui_source >>
    /\ UNCHANGED << evars, cvars, lvars, xvars >>

\* A frame in which the button is clicked: execute_operation (gui.rs:273-348,
\* main.rs:682-733).  gui.rs reports missing paths as Error; main.rs drops the
\* receiver it held and stores the new one.
GuiExecute ==
    /\ ExecuteOffered(Poll.state)
    /\ IF PathsChosen
       THEN /\ Len(jobs) < MaxJobs
            /\ operation_state' = "InProgress"
            /\ result_receiver' = Len(jobs) + 1
            /\ jobs' = Append(IF Poll.receiver # 0
                              THEN [Poll.jobs EXCEPT ![Poll.receiver].rx = FALSE]
                              ELSE Poll.jobs,
                              NewJob(operation))
       ELSE /\ operation_state' = "Error"
            /\ result_receiver' = Poll.receiver
            /\ jobs' = Poll.jobs
    /\ UNCHANGED << gimpl, operation, gui_source, gui_output >>
    /\ UNCHANGED << evars, cvars, lvars, xvars >>

\* gui.rs:198-209: the button shown with a result brings the window back to
\* Idle.
GuiConfirm ==
    /\ gimpl = "gui"
    /\ Poll.state \in { "Done", "Error" }
    /\ operation_state' = "Idle"
    /\ result_receiver' = Poll.receiver
    /\ jobs' = Poll.jobs
    /\ UNCHANGED << gimpl, operation, gui_source, gui_output >>
    /\ UNCHANGED << evars, cvars, lvars, xvars >>

\* The worker ends and sends its message (gui.rs:287-295, main.rs:693-696):
\* gui.rs ignores a send that fails, main.rs unwraps it.
WorkerSend ==
    /\ \E j \in 1..Len(jobs) : \E result \in { "Ok", "Err" } :
          /\ jobs[j].state = "running"
          /\ jobs' = IF jobs[j].rx
                     THEN [jobs EXCEPT ![j].chan = Append(@, result),
                                       ![j].state = "exited"]
                     ELSE [jobs EXCEPT ![j].state =
                               IF gimpl = "main" THEN "panicked" ELSE "exited"]
    /\ UNCHANGED << gimpl, operation, gui_source, gui_output, operation_state,
                    result_receiver >>
    /\ UNCHANGED << evars, cvars, lvars, xvars >>

\* The worker panics inside the job (compress.rs:68 `handle.join().unwrap()`,
\* main.rs:249 `strip_prefix(base_path).unwrap()`): the thread unwinds and the
\* sender is dropped with nothing sent.
WorkerPanic ==
    /\ \E j \in 1..Len(jobs) :
          /\ jobs[j].state = "running" /\ jobs[j].op = "Compress"
          /\ jobs' = [jobs EXCEPT ![j].state = "panicked"]
    /\ UNCHANGED << gimpl, operation, gui_source, gui_output, operation_state,
                    result_receiver >>
    /\ UNCHANGED << evars, cvars, lvars, xvars >>

GuiNext ==
    \/ GuiFrame
    \/ GuiSelectOperation
    \/ GuiSelectSource
    \/ GuiSelectOutput
    \/ GuiExecute
    \/ GuiConfirm
    \/ WorkerSend
    \/ WorkerPanic

GuiInit ==
    /\ gimpl \in { "gui", "main" }
    /\ operation = "Compress"
    /\ gui_source = FALSE /\ gui_output = FALSE
    /\ operation_state = "Idle"
    /\ result_receiver = 0
    /\ jobs = << >>
    /\ ReaderIdle /\ WriterIdle /\ ListIdle /\ HelpersIdle
    /\ disk = << >> /\ prefs = << >>

SpecGui == GuiInit /\ [][GuiNext]_vars

\* Frames keep coming while a job is in progress (the spinner of gui.rs:196
\* asks for a repaint), and a worker thread runs to its end.
SpecGuiLive ==
    /\ GuiInit /\ [][GuiNext]_vars
    /\ WF_vars(GuiFrame)
    /\ WF_vars(WorkerSend \/ WorkerPanic)

Running == { j \in 1..Len(jobs) : jobs[j].state = "running" }

\* C19: whatever the events, at most one worker job runs at a time, in both
\* windows.
AtMostOneJobRuns == Cardinality(Running) <= 1

\* C20: every job of the window of gui.rs delivers exactly one terminal
\* message: no job delivers two, and once the window is InProgress a later
\* frame receives the message and the state becomes Done or Error, also when
\* the worker fails or panics.
EveryJobDelivers ==
    /\ [](\A j \in 1..Len(jobs) : jobs[j].got <= 1)
    /\ (gimpl = "gui" /\ operation_state = "InProgress")
           ~> (operation_state \in { "Done", "Error" })


(***************************************************************************)
(* The first effects of the jobs.                                          *)
(***************************************************************************)
\* C21: the writer validates the source before any other effect: a job whose
\* source does not exist fails with the filesystem as it was (the output is
\* neither created nor truncated), and the sizing and writing passes are
\* entered only for a source that exists.
SourceValidatedFirst ==
    ~Exists(prefs, Components(source_path)) =>
        /\ cpc \in { "idle", "start", "done" }
        /\ cpc = "done" => (cres # "ok" /\ disk = prefs)


(***************************************************************************)
(* format_size (utils.rs).  A u64 is written in seven digits of base 1024, *)
(* the lowest first; the seventh digit is below 16.                        *)
(***************************************************************************)
TopDigit(d) ==
    IF \A i \in 1..Len(d) : d[i] = 0 THEN 1
    ELSE CHOOSE i \in 1..Len(d) : d[i] # 0 /\ \A j \in (i + 1)..Len(d) : d[j] = 0

\* Carries above base 1024 move up, from digit i on.
RECURSIVE Normalize(_, _)
Normalize(d, i) ==
    IF i >= Len(d) THEN d
    ELSE Normalize([d EXCEPT ![i] = d[i] % 1024,
                             ![i + 1] = d[i + 1] + d[i] \div 1024], i + 1)

\* `size as f64`: a value of more than 53 bits is rounded to 53 bits, to
\* nearest, ties to even.
SizeAsF64(d) ==
    LET bits == 10 * (TopDigit(d) - 1) + BitLen(d[TopDigit(d)])
    IN  IF bits <= MantissaBits THEN d
        ELSE LET p   == 2 ^ (bits - MantissaBits)
                 low == d[2] * 1024 + d[1]
                 q   == low \div p
                 r   == low % p
                 up  == 2 * r > p \/ (2 * r = p /\ q % 2 = 1)
                 new == (q + IF up THEN 1 ELSE 0) * p
             IN  Normalize([d EXCEPT ![1] = new % 1024, ![2] = new \div 1024], 2)

\* 100 times the fraction held in the digits 1..k (the digit k first after
\* the point): the whole hundredths and what is left after them.
RECURSIVE Times100(_, _, _, _)
Times100(d, i, k, carry) ==
    IF i > k THEN [whole |-> carry, left |-> << >>]
    ELSE LET v == d[i] * 100 + carry
             t == Times100(d, i + 1, k, v \div 1024)
         IN  [whole |-> t.whole, left |-> << v % 1024 >> \o t.left]

\* utils.rs:25-36: the loop divides by 1024.0 while the value is at least
\* 1024.0 and a unit is left; "{:.2}" prints the value rounded to two
\* decimals, to nearest, ties to even.
format_size(size) ==
    LET f    == SizeAsF64(size)
        k    == Min(TopDigit(f) - 1, 5)
        int  == IF k = 5 THEN f[6] + 1024 * f[7] ELSE f[k + 1]
        h    == Times100(f, 1, k, 0)
        more == k > 0 /\ \/ h.left[k] > 512
                         \/ h.left[k] = 512 /\ \E i \in 1..(k - 1) : h.left[i] # 0
        tie  == k > 0 /\ h.left[k] = 512 /\ \A i \in 1..(k - 1) : h.left[i] = 0
        up   == more \/ (tie /\ h.whole % 2 = 1)
    IN  [unit |-> k, hundredths |-> 100 * int + h.whole + IF up THEN 1 ELSE 0]

FormatSize ==
    /\ fout = NoOutput /\ fsize # << >>
    /\ fout' = format_size(fsize)
    /\ UNCHANGED << fsize, cli_output, zipfile, dname, dout >>
    /\ UNCHANGED << evars, cvars, lvars, gvars >>

FormatNext ==
    \/ FormatSize

SizeDigits == { 0, 1, 128, 512, 1023 }

FormatInit ==
    /\ fsize \in { d \in [1..7 -> SizeDigits] : d[7] \in { 0, 1 } }
               \cup { [d EXCEPT ![7] = 15] : d \in [1..7 -> { 0, 1023 }] }
    /\ fout = NoOutput /\ cli_output = NoArg /\ zipfile = "archive"
    /\ dname = << >> /\ dout = NoName
    /\ ReaderIdle /\ WriterIdle /\ ListIdle
    /\ gimpl = "gui" /\ operation = "Compress"
    /\ gui_source = FALSE /\ gui_output = FALSE
    /\ operation_state = "Idle" /\ result_receiver = 0 /\ jobs = << >>
    /\ disk = << >> /\ prefs = << >>

SpecFormat == FormatInit /\ [][FormatNext]_vars

\* C22: the unit is the largest k in 0..5 with 1024^k <= size, the number
\* printed is size / 1024^k to two decimals, and it is below 1024 for every
\* unit but the last.
FormatSizePicksUnit ==
    fout # NoOutput =>
        LET k     == Min(TopDigit(fsize) - 1, 5)
            int   == IF k = 5 THEN fsize[6] + 1024 * fsize[7] ELSE fsize[k + 1]
            exact == Times100(fsize, 1, k, 0)
            low   == 100 * int + exact.whole
            round == \A i \in 1..k : exact.left[i] = 0
            above == k > 0 /\ exact.left[k] >= 512
            below == k = 0 \/ exact.left[k] < 512
                     \/ (exact.left[k] = 512
                         /\ \A i \in 1..(k - 1) : exact.left[i] = 0)
        IN  /\ fout.unit = k
            /\ \/ fout.hundredths = low /\ below
               \/ fout.hundredths = low + 1 /\ above
            /\ k < 5 => fout.hundredths < 102400


(***************************************************************************)
(* The copy buffers.                                                       *)
(***************************************************************************)
\* C23: in read_and_write_file and in extract_file the buffer starts at
\* 32 KiB for a size below 1 MiB and at 64 KiB otherwise, doubles after a
\* read that fills it (up to 2 MiB) and otherwise keeps its length; it stays
\* between its first length and 2 MiB and never shrinks within a transfer.
CopyBufferDoubles ==
    [][ /\ (cpc # "read" /\ cpc' = "read") =>
               ccur'.buf = IF ccur'.size < 1048576 THEN 32768 ELSE 65536
        /\ (cpc = "read" /\ cpc' = "read") =>
               /\ ccur'.buf >= ccur.buf
               /\ ccur'.buf <= 2097152
               /\ ccur'.buf = IF ccur'.off - ccur.off = ccur.buf
                                 /\ ccur.buf < 2097152
                              THEN 2 * ccur.buf ELSE ccur.buf
        /\ (eimpl = "extract" /\ epc # "copy" /\ epc' = "copy") =>
               ecur'.buf = IF archive[eidx].size < 1048576 THEN 32768 ELSE 65536
        /\ (eimpl = "extract" /\ epc = "copy" /\ epc' = "copy") =>
               /\ ecur'.buf >= ecur.buf
               /\ ecur'.buf <= 2097152
               /\ ecur'.buf = IF ecur'.off - ecur.off = ecur.buf
                                 /\ ecur.buf < 2097152
                              THEN 2 * ecur.buf ELSE ecur.buf ]_vars

CopyBufferDoublesWitness ==
    /\ eimpl = "extract" /\ epc = "copy"
    /\ archive[eidx].size = 5 * MiB
    /\ ecur.off = archive[eidx].size
    /\ ecur.short = 0
    /\ ecur.buf = 2 * MiB


(***************************************************************************)
(* core.rs compress.  It differs from compress.rs in its copy loops: the   *)
(* directory branch reads into a vector of capacity 64 KiB and length 0,   *)
(* the single-file branch into one it enlarges with reserve().  Files over *)
(* 1 GiB are mapped, and a mapping that fails is an error.                 *)
(***************************************************************************)
GiB == 1073741824

\* core.rs:88-90 (directory branch, buffer.resize(len * 2)) and 113-116
\* (single file: reserve(capacity * 2) makes the capacity
\* max(2 * capacity, len + 2 * capacity), and set_len(capacity)).
CoreGrow(branch, len) ==
    IF len >= 4 * MiB THEN len
    ELSE IF branch = "walk" THEN len * 2
    ELSE Max(2 * len, len + 2 * len)

\* core.rs:60-79: one walk entry, up to its copy loop.
CoreWalkNext ==
    /\ cpc = "walk" /\ walk # << >> /\ cimpl = "core"
    /\ LET entry   == Head(walk)
           comps   == Components(entry.path)
           file    == Stat(disk, comps).loc
           base    == BasePath(source_path)
           name    == CompString(strip_prefix(comps, base))
           options == FileOptions(level)
       IN  IF entry.err
           THEN ReturnErr("Err(WalkDir)") /\ UNCHANGED << zip, walk, ccur, chan, sent >>
           ELSE IF ~IsPrefixOf(base, comps)
           THEN ReturnErr("Err(StripPrefix)")
                /\ UNCHANGED << zip, walk, ccur, chan, sent >>
           ELSE IF ~IsFile(disk, comps)
           THEN /\ walk' = Tail(walk)
                /\ UNCHANGED << cpc, cres, tx_alive, finished, zip, ccur, chan, sent >>
           ELSE IF ~StartFileOk(options)
           THEN ReturnErr("Err(Zip)") /\ UNCHANGED << zip, walk, ccur, chan, sent >>
           ELSE IF ~Readable(disk, file)
           THEN /\ zip' = Append(zip, NewEntry(name, options))
                /\ ReturnErr("Err(Io)") /\ UNCHANGED << walk, ccur, chan, sent >>
           ELSE IF FileLen(disk, file) > GiB
           THEN \/ /\ zip' = ZipWrite(Append(zip, NewEntry(name, options)),
                                      disk[file].data)
                   /\ Send(FileLen(disk, file))
                   /\ walk' = Tail(walk)
                   /\ UNCHANGED << cpc, cres, tx_alive, finished, ccur >>
                \/ /\ zip' = Append(zip, NewEntry(name, options))
                   /\ ReturnErr("Err(Io)") /\ UNCHANGED << walk, ccur, chan, sent >>
           ELSE /\ zip' = Append(zip, NewEntry(name, options))
                /\ walk' = Tail(walk)
                /\ ccur' = [OpenFile(disk, file, "walk") EXCEPT !.buf = 0]
                /\ cpc' = "coreread"
                /\ UNCHANGED << cres, tx_alive, finished, chan, sent >>
    /\ UNCHANGED << cimpl, source_path, output_path, level, total_size, relay,
                    cposition, disk, prefs, rvars, lvars, gvars, xvars >>

\* core.rs:96-104: the single file, up to its copy loop.
CoreFileBegin ==
    /\ cpc = "file" /\ cimpl = "core"
    /\ LET comps   == Components(source_path)
           options == FileOptions(level)
       IN  IF ~StartFileOk(options)
           THEN ReturnErr("Err(Zip)") /\ UNCHANGED << zip, ccur >>
           ELSE /\ zip' = Append(zip, NewEntry(FileName(source_path), options))
                /\ IF ~IsFile(disk, comps)
                      \/ ~Readable(disk, Stat(disk, comps).loc)
                   THEN ReturnErr("Err(Io)") /\ UNCHANGED ccur
                   ELSE /\ ccur' = [OpenFile(disk, Stat(disk, comps).loc, "drop")
                                      EXCEPT !.buf = 64 * KiB]
                        /\ cpc' = "coreread"
                        /\ UNCHANGED << cres, tx_alive, finished >>
    /\ UNCHANGED << cimpl, source_path, output_path, level, walk, total_size,
                    chan, relay, cposition, sent, disk, prefs, rvars, lvars,
                    gvars, xvars >>

\* core.rs:80-90 and 107-119: an iteration that reads n > 0 bytes.
CoreRead ==
    /\ cpc = "coreread" /\ Min(ccur.buf, ccur.size - ccur.off) > 0
    /\ LET full == Min(ccur.buf, ccur.size - ccur.off)
       IN  \E n \in { full } \cup
                    { k \in { full \div 2 } :
                          k >= 1 /\ ccur.short < MaxShortReads } :
              /\ zip' = ZipWrite(zip, Slice(disk[ccur.loc].data, ccur.off,
                                            ccur.off + n))
              /\ Send(n)
              /\ ccur' = [ccur EXCEPT !.off = ccur.off + n,
                                      !.buf = CoreGrow(ccur.ret, ccur.buf),
                                      !.short = IF n < full THEN @ + 1 ELSE @]
    /\ UNCHANGED << cimpl, source_path, output_path, level, cpc, cres, finished,
                    walk, total_size, tx_alive, relay, cposition, disk, prefs,
                    rvars, lvars, gvars, xvars >>

\* core.rs:81-83 and 108-110: the read returns 0, at the end of the file or
\* into a buffer of length 0, and the loop ends.
CoreReadEnd ==
    /\ cpc = "coreread" /\ Min(ccur.buf, ccur.size - ccur.off) = 0
    /\ cpc' = ccur.ret
    /\ ccur' = NoFile
    /\ UNCHANGED << cimpl, source_path, output_path, level, cres, zip, finished,
                    walk, total_size, chan, tx_alive, relay, cposition, sent,
                    disk, prefs, rvars, lvars, gvars, xvars >>

CoreNext ==
    \/ CompressBegin
    \/ CompressSizing
    \/ SpawnRelay
    \/ CompressDirectoryBegin
    \/ WalkNext
    \/ CoreWalkNext
    \/ WalkEnd
    \/ CompressFileBegin
    \/ CoreFileBegin
    \/ CompressRead
    \/ CompressReadEnd
    \/ CoreRead
    \/ CoreReadEnd
    \/ DropTx
    \/ JoinRelay
    \/ CompressFinish
    \/ RelayRecv
    \/ RelayFinish

\* The same sources for core.rs and for compress.rs.
CoreInit ==
    /\ disk \in RoundTripSources
    /\ cimpl \in { "core", "compress" }
    /\ level = U32(0, 6)
    /\ relay = [pc |-> "none", processed_size |-> 0, faulty |-> FALSE]
    /\ prefs = disk
    /\ source_path = << "d" >>
    /\ output_path = << "z" >>
    /\ cpc = "start"
    /\ cres = "none"
    /\ zip = << >>
    /\ finished = FALSE
    /\ walk = << >>
    /\ total_size = 0
    /\ chan = << >>
    /\ tx_alive = FALSE
    /\ cposition = 0
    /\ sent = 0
    /\ ccur = NoFile
    /\ ReaderIdle
    /\ ListIdle
    /\ GuiIdle

SpecCore == CoreInit /\ [][CoreNext]_vars

\* C24: the copy buffers of core.rs stay in the range their comments state:
\* 64 KiB to 4 MiB at every iteration of the read loops of compress, 64 KiB
\* to 8 MiB in extract.
CoreBuffersInRange ==
    /\ (cimpl = "core" /\ cpc = "coreread") =>
           (ccur.buf >= 65536 /\ ccur.buf <= 4194304)
    /\ (eimpl = "core" /\ epc = "copy") =>
           (ecur.buf >= 65536 /\ ecur.buf <= 8388608)

\* C25: core.rs and compress.rs write the same archive: for a directory
\* source, every entry holds exactly the bytes of its file and the deltas
\* sent sum to the sizes of the files.
CoreWritesSameArchive ==
    (cres = "ok" /\ IsDir(prefs, Components(source_path))) =>
        /\ \A i \in 1..Len(zip) :
               zip[i].data =
                   prefs[Stat(prefs, BasePath(source_path)
                                     \o Components(zip[i].name)).loc].data
        /\ sent = total_size


\* C26: in both GUIs the frame that receives a worker's failure message never
\* presents it in the Done state, and the frame that receives a success
\* message never presents it in the Error state.
FailureNeverShownAsDone ==
    [][ (/\ result_receiver # 0
         /\ jobs[result_receiver].chan # << >>
         /\ jobs'[result_receiver].got = jobs[result_receiver].got + 1) =>
            /\ Head(jobs[result_receiver].chan) = "Err" =>
                   operation_state' # "Done"
            /\ Head(jobs[result_receiver].chan) = "Ok" =>
                   operation_state' # "Error" ]_vars


(***************************************************************************)
(* The compress command (cli.rs:71-87): the output path is the --output    *)
(* argument, or a name derived from the source, and compress::compress     *)
(* follows.                                                                *)
(***************************************************************************)
Some(path) == [some |-> TRUE, path |-> path]

\* Path::with_file_name: the last component, when it is a name, is replaced;
\* otherwise the name is pushed onto the path.
with_file_name(path, name) ==
    IF FileName(path) # << >>
    THEN Join(CompString(Parent(Components(path))), name)
    ELSE Join(path, name)

\* Path::with_extension: nothing when the path has no file name; else the
\* part after the last dot of the name (a dot that is not its first
\* character) is replaced.
with_extension(path, ext) ==
    LET name == FileName(path)
        dots == { i \in 2..Len(name) : name[i] = "." }
        stem == IF dots = { } THEN name
                ELSE SubSeq(name, 1,
                            (CHOOSE i \in dots : \A j \in dots : j <= i) - 1)
    IN  IF name = << >> THEN path
        ELSE with_file_name(path, stem \o << "." >> \o ext)

\* cli.rs:74-84
DefaultOutput(fs, source) ==
    IF IsDir(fs, Components(source))
    THEN with_file_name(source, FileName(source) \o << ".", "z", "i", "p" >>)
    ELSE with_extension(source, << "z", "i", "p" >>)

\* cli.rs:71-87, up to the call of compress::compress.
HandleCompress ==
    /\ cpc = "cli"
    /\ output_path' = IF cli_output.some THEN cli_output.path
                      ELSE DefaultOutput(disk, source_path)
    /\ cpc' = "start"
    /\ UNCHANGED << cimpl, source_path, level, cres, zip, finished, walk,
                    total_size, chan, tx_alive, relay, cposition, sent, ccur,
                    disk, prefs, rvars, lvars, gvars, xvars >>

\* What the command finds in the working directory.
CliTree ==
    (At(<< << "d" >> >>) :> DirNode)
      @@ (At(<< << "d" >>, << "a" >> >>) :> SrcFile(1, 3, 420))
      @@ (At(<< << "b" >> >>) :> SrcFile(2, 4, 420))
      @@ (At(<< << "a", ".", "z", "i", "p" >> >>) :> SrcFile(3, 5, 420))

CliSources ==
    { << "d" >>, << "d", "/" >>, << "d", "/", "a" >>, << "b" >>,
      << "a", ".", "z", "i", "p" >>, << "." >>, << "n" >> }

CliOutputs ==
    { NoArg, Some(<< "z" >>), Some(<< "d", "/", "z" >>), Some(<< "b" >>) }

CliInit ==
    /\ disk = CliTree
    /\ prefs = disk
    /\ source_path \in CliSources
    /\ cli_output \in CliOutputs
    /\ cimpl = "compress"
    /\ level = U32(0, 6)
    /\ relay = [pc |-> "none", processed_size |-> 0, faulty |-> FALSE]
    /\ output_path = << >>
    /\ cpc = "cli"
    /\ cres = "none"
    /\ zip = << >>
    /\ finished = FALSE
    /\ walk = << >>
    /\ total_size = 0
    /\ chan = << >>
    /\ tx_alive = FALSE
    /\ cposition = 0
    /\ sent = 0
    /\ ccur = NoFile
    /\ fsize = << >> /\ fout = NoOutput /\ zipfile = "archive"
    /\ dname = << >> /\ dout = NoName
    /\ ReaderIdle
    /\ ListIdle
    /\ gimpl = "gui" /\ operation = "Compress"
    /\ gui_source = FALSE /\ gui_output = FALSE
    /\ operation_state = "Idle" /\ result_receiver = 0 /\ jobs = << >>

CliNext ==
    \/ HandleCompress
    \/ CompressBegin
    \/ CompressSizing
    \/ SpawnRelay
    \/ CompressDirectoryBegin
    \/ WalkNext
    \/ WalkEnd
    \/ CompressFileBegin
    \/ CompressRead
    \/ CompressReadEnd
    \/ DropTx
    \/ JoinRelay
    \/ CompressFinish
    \/ RelayRecv
    \/ RelayFinish

SpecCli == CliInit /\ [][CliNext]_vars

\* C27: compress leaves every file of its source as it was, and the output
\* path is never the source file itself, whatever the source and the output
\* argument of the command.
CompressKeepsItsSource ==
    (cpc \notin { "cli", "idle" } /\ Exists(prefs, Components(source_path))) =>
        /\ \A loc \in SourceLocs :
               prefs[loc].kind = "file" =>
                   (loc \in DOMAIN disk /\ disk[loc] = prefs[loc])
        /\ Stat(prefs, Components(output_path)).loc # SourceRoot

\* C28: the archive written never holds the output file itself, also when
\* the output path lies inside the source directory.  (The entry is looked
\* for by its name; what a read of the growing output returns is left out.)
ArchiveNeverHoldsItself ==
    cres = "ok" =>
        \A i \in 1..Len(zip) :
            Stat(disk, BasePath(source_path) \o Components(zip[i].name)).loc
                # Stat(disk, Components(output_path)).loc


\* C29: when the archive file cannot be opened or is not a readable
\* container, extract returns an error and the filesystem is as it was: no
\* output directory and no file has been created.
FailedOpenLeavesNoTrace ==
    (zipfile # "archive" /\ epc = "done") =>
        (eres = "err" /\ disk = prefs /\ touched = { })


(***************************************************************************)
(* The name column of the listing (list.rs:73-79).  A name is the sequence *)
(* of the byte lengths of its characters (1 to 4 in UTF-8); name.len() is  *)
(* their sum, and a slice of the name must begin where a character begins. *)
(***************************************************************************)
RECURSIVE ByteLen(_)
ByteLen(name) ==
    IF name = << >> THEN 0 ELSE Head(name) + ByteLen(Tail(name))

\* str::is_char_boundary
is_char_boundary(name, index) ==
    \E i \in 0..Len(name) : ByteLen(SubSeq(name, 1, i)) = index

\* &name[index..], for an index that is a character boundary
SliceFrom(name, index) ==
    LET i == CHOOSE j \in 0..Len(name) : ByteLen(SubSeq(name, 1, j)) = index
    IN  SubSeq(name, i + 1, Len(name))

\* list.rs:74-79: display_name
display_name(name) ==
    IF ByteLen(name) > 40
    THEN IF is_char_boundary(name, ByteLen(name) - 37)
         THEN [done |-> TRUE, panic |-> FALSE, dots |-> TRUE,
               shown |-> SliceFrom(name, ByteLen(name) - 37)]
         ELSE [done |-> TRUE, panic |-> TRUE, dots |-> FALSE, shown |-> << >>]
    ELSE [done |-> TRUE, panic |-> FALSE, dots |-> FALSE, shown |-> name]

DisplayName ==
    /\ ~dout.done /\ dname # << >>
    /\ dout' = display_name(dname)
    /\ UNCHANGED << fsize, fout, cli_output, zipfile, dname >>
    /\ UNCHANGED << evars, cvars, lvars, gvars >>

DisplayNext ==
    \/ DisplayName

\* Names of 36 to 46 bytes: up to three characters of 1 to 4 bytes, then
\* one-byte characters.
DisplayInit ==
    /\ dname \in { lead \o [i \in 1..(total - ByteLen(lead)) |-> 1] :
                     lead \in UNION { [1..n -> 1..4] : n \in 0..3 },
                     total \in 36..46 }
    /\ dout = NoName
    /\ fsize = << >> /\ fout = NoOutput /\ cli_output = NoArg
    /\ zipfile = "archive"
    /\ ReaderIdle /\ WriterIdle /\ ListIdle
    /\ gimpl = "gui" /\ operation = "Compress"
    /\ gui_source = FALSE /\ gui_output = FALSE
    /\ operation_state = "Idle" /\ result_receiver = 0 /\ jobs = << >>
    /\ disk = << >> /\ prefs = << >>

SpecDisplay == DisplayInit /\ [][DisplayNext]_vars

\* C30: the listing never panics on a name: a name of at most 40 bytes is
\* displayed whole, a longer one as "..." and its last 37 bytes.
DisplayedNameNeverPanics ==
    dout.done =>
        /\ ~dout.panic
        /\ ByteLen(dname) <= 40 => (~dout.dots /\ dout.shown = dname)
        /\ ByteLen(dname) > 40 =>
               /\ dout.dots
               /\ ByteLen(dout.shown) = 37
               /\ dout.shown
                    = SubSeq(dname, Len(dname) - Len(dout.shown) + 1, Len(dname))

====
